---- MODULE Spec2Model ----
(***************************************************************************)
(* Model of the docker 1.2.0 daemon's API gateway.                         *)
(*                                                                         *)
(*   - daemon startup (mainDaemon), the serveapi and acceptconnections     *)
(*     job handlers, the per-address listeners and the activation gate     *)
(*     (activationLock) that synchronises them;                            *)
(*   - the HTTP dispatcher (makeHttpHandler), the router's two             *)
(*     registrations per route, and the error-to-status mapping.           *)
(***************************************************************************)
EXTENDS Integers, Sequences, FiniteSets, TLC

(***************************************************************************)
(* Bounds of the model.                                                    *)
(***************************************************************************)
MaxHosts == 2       \* addresses given to one serveapi job
MaxRuns  == 2       \* runs of each job handler (the first is mainDaemon's)
MaxFds   == 1       \* descriptors systemd.ListenFD may hand over
MaxConns == 1       \* connections one listener accepts
MaxArgs  == 2       \* arguments given to the client's Cmd

Runs      == 1..MaxRuns
HostIdx   == 1..MaxHosts
ListenerIds == Runs \X HostIdx

\* PROTO://ADDR arguments are modelled by their protocol; "bad" is an
\* argument without "://", "tcp4" a well-formed one that net.Listen binds
\* but ListenAndServe's protocol switch rejects.
ValidProtos == {"tcp", "unix", "fd"}
ArgProtos   == ValidProtos \cup {"bad", "tcp4"}

RECURSIVE SeqsUpTo(_, _)
SeqsUpTo(S, n) ==
    IF n = 0 THEN {<<>>}
    ELSE LET shorter == SeqsUpTo(S, n - 1)
         IN  shorter \cup {Append(s, x) : s \in {t \in shorter : Len(t) = n - 1}, x \in S}

\* creation masks the process may inherit (0022), and the restrictive mask
\* (0777) ListenAndServe sets around the bind of a unix socket
InheritedUmasks  == {18}
RestrictiveUmask == 511

VARIABLES
    proc,            \* the process: "running", "exited", "fatal", "panic"
    flHosts,         \* -H flags, validated: a sequence of protocols
    jobEnv,          \* environment of the serveapi job / of the process
    mainPc,          \* position of mainDaemon
    daemonPc,        \* position of mainDaemon's background task
    daemonErr,       \* the steps of the background task that returned an error
    activationLock,  \* the package variable: 0 is nil, else a gate
    gate,            \* the channels made so far: "none", "pending", "closed"
    srv,             \* runs of ServeApi
    chErrors,        \* the error channel of each run of ServeApi
    lst,             \* the listener tasks (one per run and address)
    umask,           \* process-wide file creation mask
    ac,              \* runs of AcceptConnections
    notify,          \* the SdNotify task each run of AcceptConnections spawns
    req,             \* the HTTP request being served
    resp,            \* what the dispatcher and the handler did with it
    sess,            \* the attach or logs session being served
    task,            \* a listener task followed call by call
    cli              \* one call of the client's DockerCli.Cmd

startupVars == <<proc, flHosts, jobEnv, mainPc, daemonPc, daemonErr,
                 activationLock, gate,
                 srv, chErrors, lst, umask, ac, notify>>

httpVars == <<req, resp, sess, task, cli>>

vars == <<startupVars, httpVars>>

(***************************************************************************)
(* mainDaemon's job configuration.                                         *)
(***************************************************************************)
BufferRequestsOff == FALSE
BufferRequests == TRUE

SocketGroups == {"", "docker", "staff"}

JobEnvs == [Tls : BOOLEAN, TlsVerify : BOOLEAN, SocketGroup : SocketGroups,
            NotifySocket : BOOLEAN]

\* the flags at their defaults (no TLS, group "docker"), with and without a
\* notification socket in the environment
DaemonEnvs == {e \in JobEnvs : ~e.Tls /\ ~e.TlsVerify /\ e.SocketGroup = "docker"}

NoListener == [pc |-> "none", proto |-> "", buffered |-> FALSE,
               gateRef |-> 0, oldmask |-> 0,
               nfds |-> 0, active |-> 0, served |-> 0, accepted |-> 0,
               result |-> "none"]

NoRun == [pc |-> "idle", n |-> 0, recv |-> 0, status |-> "none"]

\* an SdNotify task: its result and the socket operations it made
NotSpawned == [res |-> "none", ops |-> 0]

\* a run of AcceptConnections: the gate it found and the gate it closed
NoAccept == [pc |-> "idle", saw |-> 0, closed |-> 0, status |-> "none"]

\* -H values are validated when the flags are parsed, and main adds the
\* default host when none is given. ServeApi starts one task per address
\* and the tasks run concurrently, so the order of valid addresses makes no
\* difference: one order per multiset of protocols is enough.
ProtoRank(p) == CASE p = "tcp" -> 1 [] p = "unix" -> 2 [] OTHER -> 3

DaemonHosts == {h \in SeqsUpTo(ValidProtos, MaxHosts) :
                  /\ Len(h) >= 1
                  /\ \A i \in 1..(Len(h) - 1) : ProtoRank(h[i]) <= ProtoRank(h[i + 1])}

StartupInit(pc0, hosts) ==
    /\ proc = "running"
    /\ flHosts \in hosts
    /\ jobEnv \in DaemonEnvs
    /\ mainPc = pc0
    /\ daemonPc = "none"
    /\ daemonErr = {}
    /\ activationLock = 0
    /\ gate = [g \in Runs |-> "none"]
    /\ srv = [k \in Runs |-> NoRun]
    /\ chErrors = [k \in Runs |-> <<>>]
    /\ lst = [l \in ListenerIds |-> NoListener]
    /\ umask \in InheritedUmasks
    /\ ac = [a \in Runs |-> NoAccept]
    /\ notify = [a \in Runs |-> NotSpawned]

(***************************************************************************)
(* ListenAndServe: one task per address, started by ServeApi.              *)
(***************************************************************************)
\* the task's result is sent on the run's buffered error channel
Finish(k, i, res) ==
    /\ lst' = [lst EXCEPT ![<<k, i>>].pc = "done", ![<<k, i>>].result = res]
    /\ chErrors' = [chErrors EXCEPT ![k] = Append(@, res)]

\* the gate a buffered listener is given (listenbuffer.NewListenBuffer's
\* third argument, read from the package variable at the call)
ListenerGate == IF BufferRequests THEN activationLock ELSE 0

\* errors of the TLS set-up: the key pair, then (verified TLS) the CA bundle
TlsErrors(proto, env) ==
    IF proto # "unix" /\ (env.Tls \/ env.TlsVerify)
    THEN {"tls"} \cup (IF env.TlsVerify THEN {"ca"} ELSE {})
    ELSE {}

\* outcomes of the protocol switch: "serve" is reaching httpSrv.Serve
SwitchOutcomes(proto, env) ==
    CASE proto = "tcp"  -> {"serve"}
      [] proto = "unix" -> {"serve", "chmod"} \cup
                           (IF env.SocketGroup \notin {"", "docker"}
                            THEN {"chgrp"} ELSE {})
      [] OTHER          -> {"proto"}

\* the bind (its error is returned after the mask is restored), the TLS
\* wrapping, the protocol switch, and the start of httpSrv.Serve
BindAndServe(k, i) ==
    LET l == lst[<<k, i>>] IN
    \E out \in {"bind"} \cup TlsErrors(l.proto, jobEnv)
                        \cup SwitchOutcomes(l.proto, jobEnv) :
        IF out = "serve"
        THEN /\ lst' = [lst EXCEPT ![<<k, i>>].pc = "serving",
                                   ![<<k, i>>].buffered = BufferRequests,
                                   ![<<k, i>>].gateRef = ListenerGate,
                                   ![<<k, i>>].active = 1,
                                   ![<<k, i>>].served = 1]
             /\ UNCHANGED chErrors
        ELSE Finish(k, i, out)

\* createRouter, then: fd -> ServeFd up to the receive on the gate;
\* unix -> unlink the stale path and set the restrictive mask;
\* else -> bind and serve
LsBegin(k, i) ==
    LET l == lst[<<k, i>>] IN
    /\ proc = "running"
    /\ l.pc = "start"
    /\ \/ /\ l.proto = "fd"
          /\ \/ Finish(k, i, "listenfd")             \* systemd.ListenFD failed
             \/ \E n \in 0..MaxFds :
                  /\ lst' = [lst EXCEPT ![<<k, i>>].pc = "fdwait",
                                        ![<<k, i>>].nfds = n,
                                        ![<<k, i>>].gateRef = activationLock]
                  /\ UNCHANGED chErrors
          /\ UNCHANGED umask
       \/ /\ l.proto = "unix"
          /\ \/ /\ Finish(k, i, "unlink")            \* error other than not-exist
                /\ UNCHANGED umask
             \/ /\ lst' = [lst EXCEPT ![<<k, i>>].pc = "bind",
                                      ![<<k, i>>].oldmask = umask]
                /\ umask' = RestrictiveUmask
                /\ UNCHANGED chErrors
       \/ /\ l.proto \notin {"fd", "unix"}
          /\ BindAndServe(k, i)
          /\ UNCHANGED umask
    /\ UNCHANGED httpVars
    /\ UNCHANGED <<proc, flHosts, jobEnv, mainPc, daemonPc, daemonErr, activationLock, gate,
                   srv, ac, notify>>

\* a unix listener: bind, restore the mask whether or not the bind
\* succeeded, then as for the other protocols
LsBind(k, i) ==
    LET l == lst[<<k, i>>] IN
    /\ proc = "running"
    /\ l.pc = "bind"
    /\ umask' = l.oldmask
    /\ BindAndServe(k, i)
    /\ UNCHANGED httpVars
    /\ UNCHANGED <<proc, flHosts, jobEnv, mainPc, daemonPc, daemonErr, activationLock, gate,
                   srv, ac, notify>>

\* ServeFd's receive on the gate it read: passes once that gate is closed
FdGateIgnored(g) == TRUE
FdGateOpen(g) == g # 0 /\ gate[g] = "closed"

\* ServeFd after the gate: one Serve task per inherited listener
FdServe(k, i) ==
    LET l == lst[<<k, i>>] IN
    /\ proc = "running"
    /\ l.pc = "fdwait"
    /\ FdGateOpen(l.gateRef)
    /\ IF l.nfds = 0
       THEN Finish(k, i, "nil")
       ELSE /\ lst' = [lst EXCEPT ![<<k, i>>].pc = "fdserving",
                                  ![<<k, i>>].active = l.nfds,
                                  ![<<k, i>>].served = l.nfds]
            /\ UNCHANGED chErrors
    /\ UNCHANGED httpVars
    /\ UNCHANGED <<proc, flHosts, jobEnv, mainPc, daemonPc, daemonErr, activationLock, gate,
                   srv, umask, ac, notify>>

\* a listener made by listenbuffer holds back Accept until its gate closes
AcceptReady(l) == ~l.buffered \/ (l.gateRef # 0 /\ gate[l.gateRef] = "closed")

\* an accept loop takes a connection, whose requests go to the router
Accept(k, i) ==
    LET l == lst[<<k, i>>] IN
    /\ proc = "running"
    /\ l.active > 0
    /\ l.accepted < MaxConns
    /\ AcceptReady(l)
    /\ lst' = [lst EXCEPT ![<<k, i>>].accepted = @ + 1]
    /\ UNCHANGED httpVars
    /\ UNCHANGED <<proc, flHosts, jobEnv, mainPc, daemonPc, daemonErr, activationLock, gate,
                   srv, chErrors, umask, ac, notify>>

\* httpSrv.Serve returns (always with an error); ServeFd returns the first
\* such error and leaves its other Serve tasks running
ServeFail(k, i) ==
    LET l == lst[<<k, i>>] IN
    /\ proc = "running"
    /\ l.pc \in {"serving", "fdserving"}
    /\ l.active > 0
    /\ lst' = [lst EXCEPT ![<<k, i>>].pc = "done",
                          ![<<k, i>>].result = "serve",
                          ![<<k, i>>].active = @ - 1]
    /\ chErrors' = [chErrors EXCEPT ![k] = Append(@, "serve")]
    /\ UNCHANGED httpVars
    /\ UNCHANGED <<proc, flHosts, jobEnv, mainPc, daemonPc, daemonErr, activationLock, gate,
                   srv, umask, ac, notify>>

(***************************************************************************)
(* ServeApi: the serveapi job handler.                                     *)
(***************************************************************************)
\* index of the first argument that is not PROTO://ADDR, else Len + 1
FirstBad(args) ==
    LET bad == {i \in 1..Len(args) : args[i] = "bad"}
    IN  IF bad = {} THEN Len(args) + 1
        ELSE CHOOSE i \in bad : \A j \in bad : i <= j

\* up to the receive loop: the usage check, the new gate, and one task per
\* argument until the first malformed one
ServeApiStart(k, args) ==
    IF Len(args) = 0
    THEN /\ srv' = [srv EXCEPT ![k] = [pc |-> "returned", n |-> 0, recv |-> 0,
                                       status |-> "usage"]]
         /\ UNCHANGED <<activationLock, gate, lst>>
    ELSE LET n == FirstBad(args) - 1 IN
         /\ activationLock' = k
         /\ gate' = [gate EXCEPT ![k] = "pending"]
         /\ lst' = [l \in ListenerIds |->
                      IF l[1] = k /\ l[2] <= n
                      THEN [NoListener EXCEPT !.pc = "start", !.proto = args[l[2]]]
                      ELSE lst[l]]
         /\ srv' = [srv EXCEPT ![k] =
                      IF n < Len(args)
                      THEN [pc |-> "returned", n |-> n, recv |-> 0, status |-> "usage"]
                      ELSE [pc |-> "waiting", n |-> n, recv |-> 0, status |-> "none"]]

\* one receive of the fan-in loop: the first error ends the job
ServeApiWait(k) ==
    /\ proc = "running"
    /\ srv[k].pc = "waiting"
    /\ chErrors[k] # <<>>
    /\ LET err == Head(chErrors[k]) IN
       /\ chErrors' = [chErrors EXCEPT ![k] = Tail(@)]
       /\ srv' = [srv EXCEPT ![k] =
                    IF err # "nil"
                    THEN [@ EXCEPT !.pc = "returned", !.recv = @ + 1, !.status = err]
                    ELSE IF srv[k].recv + 1 = srv[k].n
                    THEN [@ EXCEPT !.pc = "returned", !.recv = @ + 1, !.status = "OK"]
                    ELSE [@ EXCEPT !.recv = @ + 1]]
    /\ UNCHANGED httpVars
    /\ UNCHANGED <<proc, flHosts, jobEnv, mainPc, daemonPc, daemonErr, activationLock, gate,
                   lst, umask, ac, notify>>

(***************************************************************************)
(* AcceptConnections: the acceptconnections job handler, and SdNotify.     *)
(***************************************************************************)
\* go systemd.SdNotify("READY=1")
AcceptConnectionsBeginNoSpawn(a) ==
    /\ ac' = [ac EXCEPT ![a].pc = "begun"]
    /\ UNCHANGED notify
AcceptConnectionsBegin(a) ==
    /\ ac' = [ac EXCEPT ![a].pc = "begun"]
    /\ notify' = [notify EXCEPT ![a] = [res |-> "spawned", ops |-> 0]]

\* the status the handler returns
AcceptStatusOfNotify(a) ==
    IF notify[a].res \in {"nosocket", "dialerr", "writeerr"} THEN "ERR" ELSE "OK"
AcceptStatus(a) == "OK"

\* if activationLock != nil { close(activationLock) }; return StatusOK.
\* Closing a closed channel panics.
AcceptConnectionsClose(a) ==
    /\ proc = "running"
    /\ ac[a].pc = "begun"
    /\ IF activationLock = 0
       THEN /\ ac' = [ac EXCEPT ![a].pc = "returned", ![a].status = AcceptStatus(a)]
            /\ UNCHANGED <<gate, proc>>
       ELSE IF gate[activationLock] = "closed"
       THEN /\ ac' = [ac EXCEPT ![a].pc = "panicked", ![a].saw = activationLock]
            /\ proc' = "panic"
            /\ UNCHANGED gate
       ELSE /\ gate' = [gate EXCEPT ![activationLock] = "closed"]
            /\ ac' = [ac EXCEPT ![a].pc = "returned", ![a].saw = activationLock,
                                ![a].closed = activationLock,
                                ![a].status = AcceptStatus(a)]
            /\ UNCHANGED proc
    /\ UNCHANGED httpVars
    /\ UNCHANGED <<flHosts, jobEnv, mainPc, daemonPc, daemonErr, activationLock,
                   srv, chErrors, lst, umask, notify>>

\* results of SdNotify and the socket operations (dial, write) it made
SdNotifyOutcomes(socketSet) ==
    IF ~socketSet
    THEN {[res |-> "nosocket", ops |-> 0]}
    ELSE {[res |-> "dialerr", ops |-> 1], [res |-> "writeerr", ops |-> 2],
          [res |-> "sent", ops |-> 2]}

SdNotify(a) ==
    /\ proc = "running"
    /\ notify[a].res = "spawned"
    /\ \E o \in SdNotifyOutcomes(jobEnv.NotifySocket) :
         notify' = [notify EXCEPT ![a] = o]
    /\ UNCHANGED httpVars
    /\ UNCHANGED <<proc, flHosts, jobEnv, mainPc, daemonPc, daemonErr, activationLock, gate,
                   srv, chErrors, lst, umask, ac>>

(***************************************************************************)
(* mainDaemon: the main task runs the serveapi job, a background task      *)
(* loads the daemon and then runs the acceptconnections job.               *)
(***************************************************************************)
\* stray arguments -> usage; builtins.Register; start of the background task
MainStart ==
    /\ proc = "running"
    /\ mainPc = "start"
    /\ \/ /\ proc' = "exited"                 \* flag.NArg() != 0
          /\ UNCHANGED <<mainPc, daemonPc>>
       \/ /\ proc' = "fatal"                  \* builtins.Register failed
          /\ UNCHANGED <<mainPc, daemonPc>>
       \/ /\ mainPc' = "serveapi"
          /\ daemonPc' = "newdaemon"
          /\ UNCHANGED proc
    /\ UNCHANGED daemonErr
    /\ UNCHANGED httpVars
    /\ UNCHANGED <<flHosts, jobEnv, activationLock, gate, srv, chErrors, lst,
                   umask, ac, notify>>

\* job := eng.Job("serveapi", flHosts...); job.Run()
MainServeApi ==
    /\ proc = "running"
    /\ mainPc = "serveapi"
    /\ ServeApiStart(1, flHosts)
    /\ mainPc' = "waiting"
    /\ UNCHANGED httpVars
    /\ UNCHANGED <<proc, flHosts, jobEnv, daemonPc, daemonErr, chErrors, umask, ac, notify>>

\* the job returned: log.Fatal on an error, else mainDaemon returns
MainReturn ==
    /\ proc = "running"
    /\ mainPc = "waiting"
    /\ srv[1].pc = "returned"
    /\ mainPc' = "returned"
    /\ proc' = IF srv[1].status = "OK" THEN "exited" ELSE "fatal"
    /\ UNCHANGED httpVars
    /\ UNCHANGED <<flHosts, jobEnv, daemonPc, daemonErr, activationLock, gate, srv, chErrors,
                   lst, umask, ac, notify>>

\* a step of the background task: on an error, log.Fatal
DaemonStepIgnoringError(from, to) ==
    /\ proc = "running"
    /\ daemonPc = from
    /\ daemonPc' = to
    /\ UNCHANGED proc
    /\ \/ UNCHANGED daemonErr
       \/ daemonErr' = daemonErr \cup {from}
DaemonStep(from, to) ==
    /\ proc = "running"
    /\ daemonPc = from
    /\ \/ /\ daemonPc' = to
          /\ UNCHANGED <<proc, daemonErr>>
       \/ /\ daemonErr' = daemonErr \cup {from}
          /\ daemonPc' = "failed"
          /\ proc' = "fatal"

\* d, err := daemon.NewDaemon(daemonCfg, eng)
DaemonNewDaemon ==
    /\ DaemonStep("newdaemon", "install")
    /\ UNCHANGED httpVars
    /\ UNCHANGED <<flHosts, jobEnv, mainPc, activationLock, gate, srv, chErrors,
                   lst, umask, ac, notify>>

\* d.Install(eng)
DaemonInstall ==
    /\ DaemonStep("install", "accept")
    /\ UNCHANGED httpVars
    /\ UNCHANGED <<flHosts, jobEnv, mainPc, activationLock, gate, srv, chErrors,
                   lst, umask, ac, notify>>

\* eng.Job("acceptconnections").Run(): the handler up to the spawn of SdNotify
DaemonAccept ==
    /\ proc = "running"
    /\ daemonPc = "accept"
    /\ AcceptConnectionsBegin(1)
    /\ daemonPc' = "inaccept"
    /\ UNCHANGED httpVars
    /\ UNCHANGED <<proc, flHosts, jobEnv, mainPc, daemonErr, activationLock, gate, srv,
                   chErrors, lst, umask>>

\* the job returned: log.Fatal unless its status is OK
DaemonDone ==
    /\ proc = "running"
    /\ daemonPc = "inaccept"
    /\ ac[1].pc = "returned"
    /\ daemonPc' = "done"
    /\ proc' = IF ac[1].status = "OK" THEN proc ELSE "fatal"
    /\ UNCHANGED httpVars
    /\ UNCHANGED <<flHosts, jobEnv, mainPc, daemonErr, activationLock, gate, srv, chErrors,
                   lst, umask, ac, notify>>

(***************************************************************************)
(* The two jobs run on an engine they are registered with, by any caller   *)
(* and any number of times.                                                *)
(***************************************************************************)
JobArgs == SeqsUpTo(ArgProtos, MaxHosts)

\* runs with at most one address: what the repeated runs are checked with
ShortArgs == {a \in JobArgs : Len(a) <= 1}

RunServeApi(k, args) ==
    /\ proc = "running"
    /\ mainPc = "engine"
    /\ srv[k].pc = "idle"
    /\ \A j \in Runs : j < k => srv[j].pc # "idle"
    /\ ServeApiStart(k, args)
    /\ UNCHANGED httpVars
    /\ UNCHANGED <<proc, flHosts, jobEnv, mainPc, daemonPc, daemonErr, chErrors, umask, ac,
                   notify>>

RunAcceptConnections(a) ==
    /\ proc = "running"
    /\ mainPc = "engine"
    /\ ac[a].pc = "idle"
    /\ \A j \in Runs : j < a => ac[j].pc # "idle"
    /\ AcceptConnectionsBegin(a)
    /\ UNCHANGED httpVars
    /\ UNCHANGED <<proc, flHosts, jobEnv, mainPc, daemonPc, daemonErr, activationLock, gate,
                   srv, chErrors, lst, umask>>

(***************************************************************************)
(* Specifications.                                                         *)
(***************************************************************************)
\* the nil error: a value no message of the model is equal to
NoErr == <<"<nil>">>

\* calls: every status handed to WriteHeader (a body write without a header
\* hands it 200); status: the one that went out, the first of them
\* table: the records of a listing as they were written; paths: how the
\* listing was answered; legacy: the records of outsLegacy; version: the
\* version the handler was called with; cors: the Access-Control-Allow-*
\* headers are in the header map; sentCors: they went out with the status;
\* log: the parameters given to the request's jobs and the runs of the jobs,
\* in the order the handler made them
NoResponse == [done |-> FALSE, handler |-> "none", calls |-> <<>>, status |-> 0,
               body |-> <<>>, cors |-> FALSE, jobs |-> <<>>, err |-> NoErr,
               errStatus |-> 0, table |-> <<>>, paths |-> <<>>, legacy |-> <<>>,
               version |-> <<>>, sentCors |-> FALSE, log |-> <<>>]

\* no session is being served
NoSession == [pc |-> "none"]

\* no listener task is being followed
NoTask == [pc |-> "none"]

\* no client command is being dispatched
NoCli == [pc |-> "none"]

\* no request is being served
NoRequest == [method |-> "none", path |-> "", token |-> <<>>, cors |-> FALSE,
              varsNil |-> FALSE, formErr |-> FALSE, jobErr |-> NoErr, jobOut |-> 0,
              records |-> <<>>, images |-> <<>>, auth |-> "absent", bodyErr |-> FALSE,
              pause |-> ""]

DaemonInit ==
    /\ StartupInit("start", DaemonHosts)
    /\ req = NoRequest
    /\ resp = NoResponse
    /\ sess = NoSession
    /\ task = NoTask
    /\ cli = NoCli

ListenerStep ==
    \E k \in Runs, i \in HostIdx :
        \/ LsBegin(k, i)
        \/ LsBind(k, i)
        \/ FdServe(k, i)
        \/ Accept(k, i)
        \/ ServeFail(k, i)

HandlerStep ==
    \/ ListenerStep
    \/ \E k \in Runs : ServeApiWait(k)
    \/ \E a \in Runs : AcceptConnectionsClose(a)
    \/ \E a \in Runs : SdNotify(a)

DaemonNext ==
    \/ MainStart
    \/ MainServeApi
    \/ MainReturn
    \/ DaemonNewDaemon
    \/ DaemonInstall
    \/ DaemonAccept
    \/ DaemonDone
    \/ HandlerStep

\* the daemon as mainDaemon starts it: one run of each job
SpecDaemon == DaemonInit /\ [][DaemonNext]_vars

\* an engine with the two handlers registered and no job run yet
JobsInit ==
    /\ StartupInit("engine", {<<>>})
    /\ req = NoRequest
    /\ resp = NoResponse
    /\ sess = NoSession
    /\ task = NoTask
    /\ cli = NoCli

JobsNext ==
    \/ HandlerStep
    \/ \E k \in Runs, args \in ShortArgs : RunServeApi(k, args)
    \/ \E a \in Runs : RunAcceptConnections(a)

\* the two job handlers, run in any order and more than once
SpecJobs == JobsInit /\ [][JobsNext]_vars

\* one run of the serveapi job with any arguments, and the runs of
\* acceptconnections
UsageNext ==
    \/ HandlerStep
    \/ \E args \in JobArgs : RunServeApi(1, args)
    \/ \E a \in Runs : RunAcceptConnections(a)

SpecUsage == JobsInit /\ [][UsageNext]_vars

(***************************************************************************)
(* API versions.  A version is the sequence of its dotted numbers.         *)
(***************************************************************************)
\* the server's maximum (and default) API version
APIVERSION == <<1, 14>>

Part(v, i) == IF i <= Len(v) THEN v[i] ELSE 0

\* -1, 0 or 1: the numbers are compared left to right, a missing one as 0
RECURSIVE CompareFrom(_, _, _)
CompareFrom(a, b, i) ==
    IF i > Len(a) /\ i > Len(b) THEN 0
    ELSE IF Part(a, i) > Part(b, i) THEN 1
    ELSE IF Part(a, i) < Part(b, i) THEN -1
    ELSE CompareFrom(a, b, i + 1)

GreaterThan(a, b)          == CompareFrom(a, b, 1) = 1
LessThan(a, b)             == CompareFrom(a, b, 1) = -1
GreaterThanOrEqualTo(a, b) == CompareFrom(a, b, 1) >= 0

\* the version tokens a path may carry ("/v1.14/..."); <<>> is a bare path
VersionTokens == {<<0, 9>>, <<1>>, <<1, 3>>, <<1, 4>>, <<1, 5>>, <<1, 6>>, <<1, 7>>, <<1, 13>>,
                  <<1, 14>>, <<1, 15>>, <<2>>, <<2, 0>>}

(***************************************************************************)
(* createRouter: the route table, each path route registered with and      *)
(* without the version prefix, the OPTIONS route with no path at all.      *)
(***************************************************************************)
GetRoutes ==
    [p \in {"/_ping", "/events", "/info", "/version", "/images/json",
            "/images/viz", "/images/search", "/images/{name}/get",
            "/images/{name}/history", "/images/{name}/json", "/containers/ps",
            "/containers/json", "/containers/{name}/export",
            "/containers/{name}/changes", "/containers/{name}/json",
            "/containers/{name}/top", "/containers/{name}/logs",
            "/containers/{name}/attach/ws"} |->
        CASE p = "/_ping"                       -> "ping"
          [] p = "/events"                      -> "getEvents"
          [] p = "/info"                        -> "getInfo"
          [] p = "/version"                     -> "getVersion"
          [] p = "/images/json"                 -> "getImagesJSON"
          [] p = "/images/viz"                  -> "getImagesViz"
          [] p = "/images/search"               -> "getImagesSearch"
          [] p = "/images/{name}/get"           -> "getImagesGet"
          [] p = "/images/{name}/history"       -> "getImagesHistory"
          [] p = "/images/{name}/json"          -> "getImagesByName"
          [] p = "/containers/ps"               -> "getContainersJSON"
          [] p = "/containers/json"             -> "getContainersJSON"
          [] p = "/containers/{name}/export"    -> "getContainersExport"
          [] p = "/containers/{name}/changes"   -> "getContainersChanges"
          [] p = "/containers/{name}/json"      -> "getContainersByName"
          [] p = "/containers/{name}/top"       -> "getContainersTop"
          [] p = "/containers/{name}/logs"      -> "getContainersLogs"
          [] p = "/containers/{name}/attach/ws" -> "wsContainersAttach"]

PostRoutes ==
    [p \in {"/auth", "/commit", "/build", "/images/create", "/images/load",
            "/images/{name}/push", "/images/{name}/tag", "/containers/create",
            "/containers/{name}/kill", "/containers/{name}/pause",
            "/containers/{name}/unpause", "/containers/{name}/restart",
            "/containers/{name}/start", "/containers/{name}/stop",
            "/containers/{name}/wait", "/containers/{name}/resize",
            "/containers/{name}/attach", "/containers/{name}/copy"} |->
        CASE p = "/auth"                        -> "postAuth"
          [] p = "/commit"                      -> "postCommit"
          [] p = "/build"                       -> "postBuild"
          [] p = "/images/create"               -> "postImagesCreate"
          [] p = "/images/load"                 -> "postImagesLoad"
          [] p = "/images/{name}/push"          -> "postImagesPush"
          [] p = "/images/{name}/tag"           -> "postImagesTag"
          [] p = "/containers/create"           -> "postContainersCreate"
          [] p = "/containers/{name}/kill"      -> "postContainersKill"
          [] p = "/containers/{name}/pause"     -> "postContainersPause"
          [] p = "/containers/{name}/unpause"   -> "postContainersUnpause"
          [] p = "/containers/{name}/restart"   -> "postContainersRestart"
          [] p = "/containers/{name}/start"     -> "postContainersStart"
          [] p = "/containers/{name}/stop"      -> "postContainersStop"
          [] p = "/containers/{name}/wait"      -> "postContainersWait"
          [] p = "/containers/{name}/resize"    -> "postContainersResize"
          [] p = "/containers/{name}/attach"    -> "postContainersAttach"
          [] p = "/containers/{name}/copy"      -> "postContainersCopy"]

DeleteRoutes ==
    [p \in {"/containers/{name}", "/images/{name}"} |->
        IF p = "/containers/{name}" THEN "deleteContainers" ELSE "deleteImages"]

\* the catch-all: a route with no path
OptionsRoutes == [p \in {""} |-> "optionsHandler"]

RouteMap(method) ==
    CASE method = "GET"    -> GetRoutes
      [] method = "POST"   -> PostRoutes
      [] method = "DELETE" -> DeleteRoutes
      [] OTHER             -> <<>>

\* the map m that createRouter registers
RouterMap(method) ==
    IF method = "OPTIONS" THEN OptionsRoutes ELSE RouteMap(method)

Methods == {"GET", "POST", "DELETE", "OPTIONS", "PUT"}

Paths == DOMAIN GetRoutes \cup DOMAIN PostRoutes \cup DOMAIN DeleteRoutes
            \cup {"/nowhere"}

NoRoute == [handler |-> "none", version |-> <<>>, pathVars |-> FALSE]

\* the registrations of one entry of the map: the handler f made for it is
\* registered for the method alone when the route is empty, else for the
\* route under "/v{version:[0-9.]+}" and for the route itself
RegisterPrefixedOnly(method, route, fct) ==
    {[method |-> method, anyPath |-> FALSE, prefixed |-> TRUE, route |-> route, f |-> fct]}
Register(method, route, fct) ==
    IF route = ""
    THEN {[method |-> method, anyPath |-> TRUE, prefixed |-> FALSE, route |-> route,
           f |-> fct]}
    ELSE {[method |-> method, anyPath |-> FALSE, prefixed |-> TRUE, route |-> route,
           f |-> fct],
          [method |-> method, anyPath |-> FALSE, prefixed |-> FALSE, route |-> route,
           f |-> fct]}

RoutedMethods == {"GET", "POST", "DELETE", "OPTIONS"}

\* for method, routes := range m { for route, fct := range routes { ... } }
Registrations ==
    UNION {Register(method, route, RouterMap(method)[route]) :
             <<method, route>> \in UNION {{mt} \X DOMAIN RouterMap(mt) : mt \in RoutedMethods}}

\* mux: the registration a request matches; a path with a version token
\* matches a prefixed registration, a bare path an unprefixed one
Matches(g, method, path, token) ==
    /\ g.method = method
    /\ g.anyPath \/ (g.route = path /\ g.prefixed = (token # <<>>))

\* the route a request matches: its handler and the variables of the match.
\* Only a path route that was registered with the prefix has a version.
Match(method, path, token) ==
    LET found == {g \in Registrations : Matches(g, method, path, token)} IN
    IF found = {} THEN NoRoute
    ELSE LET g == CHOOSE g0 \in found : TRUE
         IN  [handler |-> g.f, version |-> IF g.prefixed THEN token ELSE <<>>,
              pathVars |-> ~g.anyPath]

(***************************************************************************)
(* httpError: the status chosen from the text of the error.  A message is  *)
(* the sequence of the phrases it is made of.                              *)
(***************************************************************************)
MaxMsgLen == 3

Keywords == {"No such", "Bad parameter", "Conflict", "Impossible",
             "Wrong login/password", "hasn't been activated"}

Phrases == Keywords \cup {"container"}

Msgs == SeqsUpTo(Phrases, MaxMsgLen)

\* strings.Contains(err.Error(), phrase)
Contains(msg, phrase) == \E i \in 1..Len(msg) : msg[i] = phrase

HttpErrorStatusConflictFirst(msg) ==
    IF Contains(msg, "No such") THEN 404
    ELSE IF Contains(msg, "Conflict") THEN 409
    ELSE IF Contains(msg, "Bad parameter") THEN 400
    ELSE IF Contains(msg, "Impossible") THEN 406
    ELSE IF Contains(msg, "Wrong login/password") THEN 401
    ELSE IF Contains(msg, "hasn't been activated") THEN 403
    ELSE 500
HttpErrorStatusNoForbidden(msg) ==
    IF Contains(msg, "No such") THEN 404
    ELSE IF Contains(msg, "Bad parameter") THEN 400
    ELSE IF Contains(msg, "Conflict") THEN 409
    ELSE IF Contains(msg, "Impossible") THEN 406
    ELSE IF Contains(msg, "Wrong login/password") THEN 401
    ELSE 500
HttpErrorStatus(msg) ==
    IF Contains(msg, "No such") THEN 404
    ELSE IF Contains(msg, "Bad parameter") THEN 400
    ELSE IF Contains(msg, "Conflict") THEN 409
    ELSE IF Contains(msg, "Impossible") THEN 406
    ELSE IF Contains(msg, "Wrong login/password") THEN 401
    ELSE IF Contains(msg, "hasn't been activated") THEN 403
    ELSE 500

(***************************************************************************)
(* The response writer.                                                    *)
(***************************************************************************)
WriteHeader(w, code) ==
    [w EXCEPT !.calls = Append(@, code),
              !.status = IF @ = 0 THEN code ELSE @,
              !.sentCors = IF w.status = 0 THEN w.cors ELSE @]

Write(w, chunk) ==
    LET w1 == IF w.status = 0 THEN WriteHeader(w, 200) ELSE w
    IN  [w1 EXCEPT !.body = Append(@, chunk)]

\* n chunks of job output
RECURSIVE WriteOutput(_, _)
WriteOutput(w, n) == IF n = 0 THEN w ELSE WriteOutput(Write(w, "output"), n - 1)

\* http.Error: the status, then the message as the body
HttpError(w, msg, code) == Write(WriteHeader(w, code), "error")

\* httpError(w, err)
httpError(w, msg) ==
    HttpError([w EXCEPT !.errStatus = HttpErrorStatus(msg)], msg, HttpErrorStatus(msg))

(***************************************************************************)
(* Handlers.  A handler takes the response so far and gives the response   *)
(* after it and the error it returns.                                      *)
(***************************************************************************)
Ok(w)        == [w |-> w, err |-> NoErr]
Fail(w, msg) == [w |-> [w EXCEPT !.err = msg], err |-> msg]

\* one entry of the log: a parameter given to a job, or the run of the job
Param(op, job, key, val) == [op |-> op, job |-> job, key |-> key, val |-> val]

\* eng.Job(name, ...): the job is made
NewJob(w, name) == [w EXCEPT !.log = Append(@, Param("Job", name, "", ""))]

\* job.Stdin.Add(r.Body): the body of the request is the job's input
StdinAdd(w, job) == [w EXCEPT !.log = Append(@, Param("Stdin", job, "r.Body", ""))]

\* job.Setenv, job.SetenvBool, job.SetenvJson: one call per key, in order
Setenv(w, job, keys) ==
    [w EXCEPT !.log = @ \o [k \in 1..Len(keys) |-> Param("Setenv", job, keys[k], "")]]

\* job.Setenv(key, val), for a value the model follows
SetenvVal(w, job, key, val) ==
    [w EXCEPT !.log = Append(@, Param("Setenv", job, key, val))]

\* job.SetenvJson("authConfig", authConfig)
SetenvAuth(w, job, authConfig) ==
    [w EXCEPT !.log = Append(@, Param("Setenv", job, "authConfig", authConfig))]

\* job.Args = append(job.Args, sig)
AppendArg(w, job, arg) == [w EXCEPT !.log = Append(@, Param("Args", job, arg, ""))]

\* job.DecodeEnv(r.Body)
DecodeEnv(w, job, ok) ==
    [w EXCEPT !.log = Append(@, Param("DecodeEnv", job, "", IF ok THEN "ok" ELSE "error"))]

\* if err := job.DecodeEnv(r.Body); err != nil { return err }
DecodeNeverFailed(rq) == FALSE
DecodeFailed(rq) == rq.bodyErr

\* job.Run(): the job is run, and its error (if any) is the result
RunJob(w, name) ==
    [w EXCEPT !.jobs = Append(@, name), !.log = Append(@, Param("Run", name, "", ""))]

\* the X-Registry-Auth header of a request
AuthHeaders == {"absent", "valid", "garbled"}

\* authConfig after the header was looked at: the decoded credential, or
\* the empty one when there is no header or it cannot be decoded (what the
\* decoder had filled in by then is dropped)
HeaderAuthConfigKept(auth) ==
    CASE auth = "valid" -> "credential" [] auth = "garbled" -> "partial" [] OTHER -> "empty"
HeaderAuthConfig(auth) == IF auth = "valid" THEN "credential" ELSE "empty"

optionsHandler(w) == Ok(WriteHeader(w, 200))

ping(w) == Ok(Write(w, "OK"))

\* postContainersKill (with a signal in the form), postContainersPause,
\* postContainersUnpause
UnaryNoContent(w, rq, varsNil, job) ==
    IF varsNil THEN Fail(w, <<"Missing parameter">>)
    ELSE IF rq.formErr THEN Fail(w, <<"invalid form">>)
    ELSE LET w0 == NewJob(w, job)
             w1 == RunJob(IF job = "kill" THEN AppendArg(w0, job, "signal") ELSE w0, job) IN
         IF rq.jobErr # NoErr THEN Fail(w1, rq.jobErr)
         ELSE Ok(WriteHeader(w1, 204))

\* return job.Run(), the job's standard stream being the response writer
RunStream(w, rq, job) ==
    LET w1 == WriteOutput(RunJob(w, job), rq.jobOut) IN
    IF rq.jobErr # NoErr THEN Fail(w1, rq.jobErr) ELSE Ok(w1)

\* getContainersExport, getImagesHistory, getContainersChanges
StreamJob(w, rq, varsNil, job) ==
    IF varsNil THEN Fail(w, <<"Missing parameter">>)
    ELSE RunStream(NewJob(w, job), rq, job)

\* getContainersTop: as StreamJob, after the form is parsed
StreamJobForm(w, rq, varsNil, job) ==
    IF varsNil THEN Fail(w, <<"Missing parameter">>)
    ELSE IF rq.formErr THEN Fail(w, <<"invalid form">>)
    ELSE StreamJob(w, rq, FALSE, job)

getEvents(w, rq) ==
    IF rq.formErr THEN Fail(w, <<"invalid form">>)
    ELSE RunStream(Setenv(NewJob(w, "events"), "events", <<"since", "until">>),
                   rq, "events")

\* an X-Registry-Auth header that cannot be decoded is no error
getImagesSearch(w, rq) ==
    IF rq.formErr THEN Fail(w, <<"invalid form">>)
    ELSE RunStream(SetenvAuth(Setenv(NewJob(w, "search"), "search", <<"metaHeaders">>),
                              "search", HeaderAuthConfig(rq.auth)),
                   rq, "search")

\* sf.FormatError(err): a JSON error object, or a line of text for a
\* formatter made without json
FormatError(json) == IF json THEN "errorObject" ELSE "errorText"

\* job.Stdout.Used(): the job has written to its standard stream
UsedAlways(rq) == TRUE
Used(rq) == rq.jobOut > 0

\* postImagesCreate, postImagesPush, postBuild: the error of a job that has
\* written nothing is returned, any other is written after the output
StreamFormatted(w, rq, job, json) ==
    LET w1 == WriteOutput(RunJob(IF json THEN Setenv(w, job, <<"json">>) ELSE w, job),
                          rq.jobOut)
    IN  IF rq.jobErr = NoErr THEN Ok(w1)
        ELSE IF ~Used(rq) THEN Fail(w1, rq.jobErr)
        ELSE Ok(Write(w1, FormatError(json)))

\* postImagesCreate with fromImage (a pull)
postImagesCreate(w, rq, version) ==
    IF rq.formErr THEN Fail(w, <<"invalid form">>)
    ELSE StreamFormatted(SetenvAuth(Setenv(NewJob(w, "pull"), "pull",
                                           <<"parallel", "metaHeaders">>),
                                    "pull", HeaderAuthConfig(rq.auth)),
                         rq, "pull", GreaterThan(version, <<1, 0>>))

\* postImagesPush: without the header the credential is the request's body,
\* and a body that cannot be decoded is returned as an error
postImagesPush(w, rq, version, varsNil) ==
    IF varsNil THEN Fail(w, <<"Missing parameter">>)
    ELSE IF rq.formErr THEN Fail(w, <<"invalid form">>)
    ELSE IF rq.auth = "absent" /\ rq.bodyErr THEN Fail(w, <<"invalid body">>)
    ELSE LET authConfig == IF rq.auth = "absent" THEN "body" ELSE HeaderAuthConfig(rq.auth)
             w1 == Setenv(SetenvAuth(Setenv(NewJob(w, "push"), "push", <<"metaHeaders">>),
                                     "push", authConfig),
                          "push", <<"tag">>)
         IN  StreamFormatted(w1, rq, "push", GreaterThan(version, <<1, 0>>))

getContainersTop(w, rq, version, varsNil) ==
    IF LessThan(version, <<1, 4>>) THEN Fail(w, <<"top was improved">>)
    ELSE StreamJobForm(w, rq, varsNil, "top")

\* if version.LessThan("1.3") { return fmt.Errorf("Multipart upload ...") }
BuildRejectedBelow1(version) == LessThan(version, <<1, 0>>)
BuildRejected(version) == LessThan(version, <<1, 3>>)

\* postBuild: "json" is set with the stream, the other parameters after it,
\* the body is added as the job's input after "rm"
postBuild(w, rq, version) ==
    IF BuildRejected(version) THEN Fail(w, <<"Multipart upload">>)
    ELSE LET json == GreaterThanOrEqualTo(version, <<1, 8>>)
             w0   == NewJob(w, "build")
             wj   == IF json THEN Setenv(w0, "build", <<"json">>) ELSE w0
             wp   == Setenv(StdinAdd(Setenv(wj, "build", <<"rm">>), "build"),
                            "build",
                            <<"remote", "t", "q", "nocache", "forcerm",
                              "authConfig", "configFile">>)
             w1   == WriteOutput(RunJob(wp, "build"), rq.jobOut)
         IN  IF rq.jobErr = NoErr THEN Ok(w1)
             ELSE IF ~Used(rq) THEN Fail(w1, rq.jobErr)
             ELSE Ok(Write(w1, FormatError(json)))

\* strings.Contains(err.Error(), "No such container")
ContainsNoSuchContainer(msg) ==
    \E i \in 1..(Len(msg) - 1) : msg[i] = "No such" /\ msg[i + 1] = "container"

\* writeJSON(w, code, v)
writeJSON(w, code) == Write(WriteHeader(w, code), "json")

\* postContainersStart, with a body
postContainersStart(w, rq, varsNil) ==
    IF varsNil THEN Fail(w, <<"Missing parameter">>)
    ELSE IF DecodeFailed(rq)
    THEN Fail(DecodeEnv(NewJob(w, "start"), "start", ~rq.bodyErr), <<"invalid body">>)
    ELSE LET w1 == RunJob(DecodeEnv(NewJob(w, "start"), "start", ~rq.bodyErr), "start") IN
         IF rq.jobErr = <<"Container already started">> THEN Ok(WriteHeader(w1, 304))
         ELSE IF rq.jobErr # NoErr THEN Fail(w1, rq.jobErr)
         ELSE Ok(WriteHeader(w1, 204))

postContainersStop(w, rq, varsNil) ==
    IF rq.formErr THEN Fail(w, <<"invalid form">>)
    ELSE IF varsNil THEN Fail(w, <<"Missing parameter">>)
    ELSE LET w1 == RunJob(Setenv(NewJob(w, "stop"), "stop", <<"t">>), "stop") IN
         IF rq.jobErr = <<"Container already stopped">> THEN Ok(WriteHeader(w1, 304))
         ELSE IF rq.jobErr # NoErr THEN Fail(w1, rq.jobErr)
         ELSE Ok(WriteHeader(w1, 204))

\* postContainersCreate: a form that cannot be parsed returns nil
postContainersCreate(w, rq) ==
    IF rq.formErr THEN Ok(w)
    ELSE IF DecodeFailed(rq)
    THEN Fail(DecodeEnv(NewJob(w, "create"), "create", ~rq.bodyErr), <<"invalid body">>)
    ELSE LET w1 == RunJob(DecodeEnv(NewJob(w, "create"), "create", ~rq.bodyErr),
                          "create") IN
         IF rq.jobErr # NoErr THEN Fail(w1, rq.jobErr)
         ELSE Ok(writeJSON(w1, 201))

\* postContainersCopy; formErr: the content type or the body is refused.
\* The job's standard stream is the response writer.
postContainersCopy(w, rq, varsNil) ==
    IF varsNil THEN Fail(w, <<"Missing parameter">>)
    ELSE IF rq.formErr THEN Fail(w, <<"Content-Type not supported">>)
    ELSE LET w1 == WriteOutput(RunJob(NewJob(w, "container_copy"), "container_copy"),
                               rq.jobOut) IN
         IF rq.jobErr = NoErr THEN Ok(w1)
         ELSE IF ContainsNoSuchContainer(rq.jobErr) THEN Ok(WriteHeader(w1, 404))
         ELSE IF Contains(rq.jobErr, "no such file or directory")
         THEN Fail(w1, <<"Could not find the file">>)
         ELSE Ok(w1)

\* the containers of a listing: each is the list of its public ports, as
\* the containers job gives them
MaxRecords == 2

PortLists == {<<>>, <<80>>, <<443, 80>>}

Listings == SeqsUpTo(PortLists, MaxRecords)

RECURSIVE Insert(_, _)
Insert(x, sorted) ==
    IF sorted = <<>> THEN <<x>>
    ELSE IF x <= Head(sorted) THEN <<x>> \o sorted
    ELSE <<Head(sorted)>> \o Insert(x, Tail(sorted))

RECURSIVE SortedPorts(_)
SortedPorts(ports) ==
    IF ports = <<>> THEN <<>> ELSE Insert(Head(ports), SortedPorts(Tail(ports)))

\* api.DisplayablePorts: the ports in the order of their numbers, as one string
DisplayablePorts(ports) == [display |-> TRUE, ports |-> SortedPorts(ports)]

\* the Ports field as the job wrote it
StructuredPorts(ports) == [display |-> FALSE, ports |-> ports]

\* version.GreaterThanOrEqualTo("1.5")
ListingStreamsAlways(version) == TRUE
ListingStreams(version) == GreaterThanOrEqualTo(version, <<1, 5>>)

\* version.LessThan("1.5")
ListingLegacyBelow14(version) == LessThan(version, <<1, 4>>)
ListingLegacy(version) == LessThan(version, <<1, 5>>)

getContainersJSON(w, rq, version) ==
    IF rq.formErr THEN Fail(w, <<"invalid form">>)
    ELSE LET n  == Len(rq.records)
             w1 == [RunJob(Setenv(NewJob(w, "containers"), "containers",
                                  <<"all", "size", "since", "before", "limit", "filters">>),
                           "containers") EXCEPT
                       !.paths = Append(@, IF ListingStreams(version)
                                            THEN "stream" ELSE "buffer")]
             w2 == IF ListingStreams(version)
                   THEN [WriteOutput(w1, n) EXCEPT
                            !.table = [k \in 1..n |-> StructuredPorts(rq.records[k])]]
                   ELSE w1
         IN  IF rq.jobErr # NoErr THEN Fail(w2, rq.jobErr)
             ELSE IF ListingLegacy(version)
             THEN Ok([Write(w2, "list") EXCEPT
                         !.table = [k \in 1..n |-> DisplayablePorts(rq.records[k])],
                         !.paths = Append(@, "legacy")])
             ELSE Ok(w2)

\* a name is the sequence of its characters; the images job names every
\* entry of RepoTags repository:tag, the repository with or without a
\* registry host and port, an image without a tag "<none>:<none>"
RepoTagStrings == {<<"r", ":", "t">>,
                   <<"h", ":", "5", "/", "r", ":", "t">>,
                   <<"<none>", ":", "<none>">>}

\* the images of a listing as the images job gives them
ImageRecords ==
    {[Id |-> "a", Created |-> 10, Size |-> 20, VirtualSize |-> 30,
      RepoTags |-> <<<<"r", ":", "t">>>>],
     [Id |-> "b", Created |-> 11, Size |-> 21, VirtualSize |-> 31,
      RepoTags |-> <<<<"h", ":", "5", "/", "r", ":", "t">>, <<"r", ":", "t">>>>],
     [Id |-> "c", Created |-> 12, Size |-> 22, VirtualSize |-> 32,
      RepoTags |-> <<<<"<none>", ":", "<none>">>>>],
     [Id |-> "d", Created |-> 13, Size |-> 23, VirtualSize |-> 33,
      RepoTags |-> <<>>]}

ImageListings == SeqsUpTo(ImageRecords, MaxRecords)

\* strings.LastIndex(s, c), 0 when c is not in s
LastIndex(s, c) ==
    LET at == {k \in 1..Len(s) : s[k] = c}
    IN  IF at = {} THEN 0 ELSE CHOOSE k \in at : \A j \in at : j <= k

\* parsers.ParseRepositoryTag: the name is cut at its last colon, unless
\* what follows has a slash (the colon is then that of a registry port)
ParseRepositoryTag(repos) ==
    LET n   == LastIndex(repos, ":")
        tag == SubSeq(repos, n + 1, Len(repos))
    IN  IF n = 0 THEN [repo |-> repos, tag |-> <<>>]
        ELSE IF ~Contains(tag, "/") THEN [repo |-> SubSeq(repos, 1, n - 1), tag |-> tag]
        ELSE [repo |-> repos, tag |-> <<>>]

\* one record of outsLegacy
LegacyImage(out, repoTag) ==
    [Repository |-> ParseRepositoryTag(repoTag).repo,
     Tag        |-> ParseRepositoryTag(repoTag).tag,
     Id |-> out.Id, Created |-> out.Created, Size |-> out.Size,
     VirtualSize |-> out.VirtualSize]

\* for _, out := range outs.Data { for _, repoTag := range out.GetList("RepoTags")
RECURSIVE LegacyImages(_)
LegacyImages(outs) ==
    IF outs = <<>> THEN <<>>
    ELSE [k \in 1..Len(Head(outs).RepoTags) |->
             LegacyImage(Head(outs), Head(outs).RepoTags[k])]
         \o LegacyImages(Tail(outs))

\* version.GreaterThanOrEqualTo("1.7")
ImagesStreamFrom16(version) == GreaterThanOrEqualTo(version, <<1, 6>>)
ImagesStream(version) == GreaterThanOrEqualTo(version, <<1, 7>>)

\* version.LessThan("1.7") && outs != nil: outs is the table added to the
\* job's standard stream when the listing is not streamed
ImagesLegacy(version) == LessThan(version, <<1, 7>>) /\ ~ImagesStream(version)

getImagesJSON(w, rq, version) ==
    IF rq.formErr THEN Fail(w, <<"invalid form">>)
    ELSE LET n  == Len(rq.images)
             w1 == [RunJob(Setenv(NewJob(w, "images"), "images",
                                  <<"filters", "filter", "all">>),
                           "images") EXCEPT
                       !.paths = Append(@, IF ImagesStream(version)
                                            THEN "stream" ELSE "buffer")]
             w2 == IF ImagesStream(version)
                   THEN [WriteOutput(w1, n) EXCEPT !.table = rq.images]
                   ELSE w1
         IN  IF rq.jobErr # NoErr THEN Fail(w2, rq.jobErr)
             ELSE IF ImagesLegacy(version)
             THEN Ok([Write(w2, "list") EXCEPT
                         !.legacy = LegacyImages(rq.images),
                         !.paths = Append(@, "legacy")])
             ELSE Ok(w2)

\* handlers that test vars == nil
VarsHandlers == {"postContainersStart", "postContainersStop", "postContainersCopy",
                 "postContainersKill", "postContainersPause", "postContainersUnpause",
                 "getContainersExport", "getImagesHistory", "getContainersChanges",
                 "getContainersTop", "postImagesPush"}

\* eng.ServeHTTP(w, r): the engine answers the request itself
EngServeHTTP(w) == Write(w, "engine")

\* getImagesViz: past 1.6 the handler writes 404 and returns an error too
getImagesViz(w, version) ==
    IF GreaterThan(version, <<1, 6>>)
    THEN Fail(WriteHeader(w, 404), <<"This is now implemented in the client.">>)
    ELSE Ok(EngServeHTTP(w))

\* the "pause" form value of a commit request
PauseValues == {"", "0", "1"}

\* the "pause" parameter of the commit job
PauseParamAbove113(pause, version) ==
    IF pause = "" /\ GreaterThan(version, <<1, 13>>) THEN "1" ELSE pause
PauseParam(pause, version) ==
    IF pause = "" /\ GreaterThanOrEqualTo(version, <<1, 13>>) THEN "1" ELSE pause

\* postCommit; the job's output goes to a buffer, only the id is written
postCommit(w, rq, version) ==
    IF rq.formErr THEN Fail(w, <<"invalid form">>)
    ELSE LET w1 == RunJob(Setenv(SetenvVal(NewJob(w, "commit"), "commit", "pause",
                                           PauseParam(rq.pause, version)),
                                 "commit",
                                 <<"repo", "tag", "author", "comment", "config">>),
                          "commit")
         IN  IF rq.jobErr # NoErr THEN Fail(w1, rq.jobErr)
             ELSE Ok(writeJSON(w1, 201))

Modelled == {"optionsHandler", "ping", "getEvents", "postImagesCreate", "postBuild",
             "getImagesSearch", "postCommit", "getImagesViz",
             "postContainersCreate", "getContainersJSON", "getImagesJSON"}
               \cup VarsHandlers

HandlerResult(h, w, rq, version, varsNil) ==
    CASE h = "optionsHandler"        -> optionsHandler(w)
      [] h = "ping"                  -> ping(w)
      [] h = "postContainersKill"    -> UnaryNoContent(w, rq, varsNil, "kill")
      [] h = "postContainersPause"   -> UnaryNoContent(w, rq, varsNil, "pause")
      [] h = "postContainersUnpause" -> UnaryNoContent(w, rq, varsNil, "unpause")
      [] h = "getContainersExport"   -> StreamJob(w, rq, varsNil, "export")
      [] h = "getImagesHistory"      -> StreamJob(w, rq, varsNil, "history")
      [] h = "getContainersChanges"  -> StreamJob(w, rq, varsNil, "container_changes")
      [] h = "getEvents"             -> getEvents(w, rq)
      [] h = "getImagesSearch"       -> getImagesSearch(w, rq)
      [] h = "getContainersTop"      -> getContainersTop(w, rq, version, varsNil)
      [] h = "postImagesCreate"      -> postImagesCreate(w, rq, version)
      [] h = "postImagesPush"        -> postImagesPush(w, rq, version, varsNil)
      [] h = "postBuild"             -> postBuild(w, rq, version)
      [] h = "postCommit"            -> postCommit(w, rq, version)
      [] h = "getImagesViz"          -> getImagesViz(w, version)
      [] h = "postContainersStart"   -> postContainersStart(w, rq, varsNil)
      [] h = "postContainersStop"    -> postContainersStop(w, rq, varsNil)
      [] h = "postContainersCreate"  -> postContainersCreate(w, rq)
      [] h = "postContainersCopy"    -> postContainersCopy(w, rq, varsNil)
      [] h = "getContainersJSON"     -> getContainersJSON(w, rq, version)
      [] h = "getImagesJSON"         -> getImagesJSON(w, rq, version)

(***************************************************************************)
(* makeHttpHandler: the dispatcher wrapped around every handler.           *)
(***************************************************************************)
\* version.GreaterThan(api.APIVERSION)
VersionRejectedInverted(version) == LessThan(version, APIVERSION)
VersionRejected(version) == GreaterThan(version, APIVERSION)

\* the version of the request: the route's variable, else the server's
ResolvedVersion(route) ==
    IF route.version = <<>> THEN APIVERSION ELSE route.version

\* if enableCors { writeCorsHeaders(w, r) }
CorsHeadersNever(w, enableCors) == w
CorsHeaders(w, enableCors) == [w EXCEPT !.cors = enableCors]

\* rq.cors: the server was started with EnableCors
MakeHttpHandler(route, rq) ==
    LET version == ResolvedVersion(route)
        w0      == CorsHeaders(NoResponse, rq.cors)
    IN  IF VersionRejected(version)
        THEN HttpError(w0, <<"client and server don't have same version">>, 404)
        ELSE LET hr == HandlerResult(route.handler,
                                     [w0 EXCEPT !.handler = route.handler,
                                                !.version = version],
                                     rq, version, rq.varsNil)
             IN  IF hr.err # NoErr THEN httpError(hr.w, hr.err) ELSE hr.w

\* net/http: a handler that returns without a status has answered 200
FinishRequest(w) == IF w.status = 0 THEN WriteHeader(w, 200) ELSE w

\* the router: no matching route is mux's own 404
ServeHTTPResult(rq) ==
    LET route == Match(rq.method, rq.path, rq.token)
    IN  IF route.handler = "none"
        THEN HttpError(NoResponse, <<"404 page not found">>, 404)
        ELSE FinishRequest(MakeHttpHandler(route, rq))

(***************************************************************************)
(* Requests served by a running daemon.                                    *)
(***************************************************************************)
\* what the job of a request does: the chunks it writes to its standard
\* stream, and the error it ends with
MaxJobOut == 1

\* errors of a job in the dispatch specification: one phrase
ShortMsgs == {m \in Msgs : Len(m) = 1}

\* and the errors some handler singles out
JobErrs == ShortMsgs \cup {<<"No such", "container">>, <<"Container already started">>,
                           <<"Container already stopped">>,
                           <<"no such file or directory">>}

\* the handler a request reaches, "none" when the dispatcher answers itself
Reached(rq) ==
    LET route == Match(rq.method, rq.path, rq.token)
    IN  IF route.handler = "none" \/ VersionRejected(ResolvedVersion(route))
        THEN "none" ELSE route.handler

RunsJob(h) == h \in Modelled \ {"optionsHandler", "ping", "getImagesViz"}

\* requests to the handlers modelled so far, and requests no handler sees;
\* the inputs a request does not read are left at their defaults.  varsNil:
\* mux.Vars(r) is nil, the case every handler with a path variable tests
Targets ==
    {t \in [method : Methods, path : Paths, token : VersionTokens \cup {<<>>},
            cors : BOOLEAN] :
        /\ Reached(t) \in Modelled \cup {"none"}
        /\ t.method \in {"OPTIONS", "PUT"} => t.path \in {"/info", "/nowhere"}}

\* handlers that call parseForm
ParsesForm == {"postContainersKill", "postContainersPause", "postContainersUnpause",
               "getImagesJSON", "getEvents", "getContainersTop", "getContainersJSON",
               "postCommit", "postImagesCreate", "getImagesSearch", "postImagesPush",
               "postContainersCreate", "postContainersStop"}

\* handlers that decode the body of the request
DecodesBody == {"postImagesPush", "postContainersCreate", "postContainersStart"}

\* handlers that read the X-Registry-Auth header
ReadsAuth == {"postImagesCreate", "getImagesSearch", "postImagesPush"}

\* the inputs the handler h reads
HandlerInputs(h) ==
    {i \in [varsNil : IF h \in VarsHandlers THEN BOOLEAN ELSE {FALSE},
            formErr : IF h \in ParsesForm \cup {"postContainersCopy"}
                      THEN BOOLEAN ELSE {FALSE},
            bodyErr : IF h \in DecodesBody THEN BOOLEAN ELSE {FALSE},
            auth    : IF h \in ReadsAuth THEN AuthHeaders ELSE {"absent"},
            jobErr  : IF h = "getImagesJSON" THEN {NoErr, <<"Impossible">>}
                      ELSE IF RunsJob(h) THEN JobErrs \cup {NoErr} ELSE {NoErr},
            pause   : IF h = "postCommit" THEN PauseValues ELSE {""},
            jobOut  : IF RunsJob(h) /\ h \notin {"getContainersJSON", "getImagesJSON",
                                                  "postCommit"}
                      THEN 0..MaxJobOut ELSE {0},
            records : IF h = "getContainersJSON" THEN Listings ELSE {<<>>},
            images  : IF h = "getImagesJSON" THEN ImageListings ELSE {<<>>}] :
        /\ i.varsNil => (~i.formErr /\ i.jobErr = NoErr /\ i.jobOut = 0
                           /\ ~i.bodyErr /\ i.auth = "absent")
        /\ (i.bodyErr /\ h = "postImagesPush") => i.auth = "absent"}

Requests ==
    {[method |-> t.method, path |-> t.path, token |-> t.token, cors |-> t.cors,
      varsNil |-> i.varsNil, formErr |-> i.formErr, jobErr |-> i.jobErr,
      jobOut |-> i.jobOut, records |-> i.records, images |-> i.images,
      auth |-> i.auth, bodyErr |-> i.bodyErr, pause |-> i.pause] :
        <<t, i>> \in UNION {{t0} \X HandlerInputs(Reached(t0)) : t0 \in Targets}}

\* requests whose job fails with any message of the model
ErrorRequests ==
    {[method |-> "POST", path |-> "/containers/{name}/kill", token |-> t,
      cors |-> FALSE, varsNil |-> FALSE, formErr |-> FALSE, jobErr |-> m,
      jobOut |-> 0, records |-> <<>>, images |-> <<>>, auth |-> "absent",
      bodyErr |-> FALSE, pause |-> ""] :
        t \in {<<>>, <<1, 13>>}, m \in Msgs}

\* a daemon whose tcp listener has accepted a connection
Serving ==
    /\ proc = "running"
    /\ flHosts = <<"tcp">>
    /\ jobEnv = [Tls |-> FALSE, TlsVerify |-> FALSE, SocketGroup |-> "docker",
                 NotifySocket |-> FALSE]
    /\ mainPc = "waiting"
    /\ daemonPc = "done"
    /\ daemonErr = {}
    /\ activationLock = 1
    /\ gate = [g \in Runs |-> IF g = 1 THEN "closed" ELSE "none"]
    /\ srv = [k \in Runs |-> IF k = 1 THEN [NoRun EXCEPT !.pc = "waiting", !.n = 1]
                             ELSE NoRun]
    /\ chErrors = [k \in Runs |-> <<>>]
    /\ lst = [l \in ListenerIds |->
                IF l = <<1, 1>>
                THEN [NoListener EXCEPT !.pc = "serving", !.proto = "tcp",
                                        !.buffered = TRUE, !.gateRef = 1,
                                        !.active = 1, !.served = 1, !.accepted = 1]
                ELSE NoListener]
    /\ umask \in InheritedUmasks
    /\ ac = [a \in Runs |-> IF a = 1
                            THEN [pc |-> "returned", saw |-> 1, closed |-> 1,
                                  status |-> "OK"]
                            ELSE NoAccept]
    /\ notify = [a \in Runs |-> IF a = 1 THEN [res |-> "nosocket", ops |-> 0]
                                ELSE NotSpawned]

\* the router serves the request of an accepted connection
ServeHTTP ==
    /\ proc = "running"
    /\ \E l \in ListenerIds : lst[l].accepted > 0
    /\ req # NoRequest
    /\ ~resp.done
    /\ resp' = [ServeHTTPResult(req) EXCEPT !.done = TRUE]
    /\ UNCHANGED <<req, sess, task, cli, startupVars>>

HttpInit ==
    /\ Serving
    /\ req \in Requests
    /\ resp = NoResponse
    /\ sess = NoSession
    /\ task = NoTask
    /\ cli = NoCli

\* one request, of any kind, dispatched by the router
SpecHttp == HttpInit /\ [][ServeHTTP]_vars

HttpErrorInit ==
    /\ Serving
    /\ req \in ErrorRequests
    /\ resp = NoResponse
    /\ sess = NoSession
    /\ task = NoTask
    /\ cli = NoCli

\* one request whose job fails, with any error text
SpecHttpError == HttpErrorInit /\ [][ServeHTTP]_vars

(***************************************************************************)
(* Sessions: postContainersAttach (hijacked connection),                   *)
(* wsContainersAttach (web-socket) and getContainersLogs (response body).  *)
(***************************************************************************)
\* writes the job makes on each of its two streams
MaxWrites == 2

\* bytes in a write: one byte, and more than one length byte can hold
WriteLens == {1, 300}

WritePlans == SeqsUpTo(WriteLens, MaxWrites)

\* the versions the dispatcher hands on, on both sides of 1.6
SessionVersions == {<<1, 5>>, <<1, 6>>, <<1, 14>>}

SessionKinds == {"attach", "ws", "logs"}

\* what fails before the hand-off, if anything
Faults == {"none", "form", "vars", "inspect", "hijack"}

\* kind: the handler; isTcp: the connection is a *net.TCPConn; hasConfig,
\* tty: the inspected container; jobErr: the attach or logs job fails
SessionInputs ==
    {i \in [kind : SessionKinds, isTcp : BOOLEAN, hasConfig : BOOLEAN, tty : BOOLEAN,
            version : SessionVersions, fault : Faults, jobErr : BOOLEAN,
            outWrites : WritePlans, errWrites : WritePlans] :
        /\ i.fault = "hijack" => i.kind = "attach"
        /\ i.kind # "attach" => ~i.isTcp
        /\ ~i.hasConfig => ~i.tty
        /\ i.fault # "none" =>
              /\ i.outWrites = <<>> /\ i.errWrites = <<>> /\ ~i.jobErr
              /\ i.version = APIVERSION /\ i.hasConfig /\ ~i.tty /\ ~i.isTcp}

\* one write on the connection
Item(kind, tag, size, len, src, id) ==
    [kind |-> kind, tag |-> tag, size |-> size, len |-> len, src |-> src, id |-> id]

\* conn.Write([]byte{}) of hijackServer
Flush == Item("flush", "", <<>>, 0, "handler", 0)

\* "HTTP/1.1 200 OK\r\nContent-Type: application/vnd.docker.raw-stream\r\n\r\n"
StatusLine == Item("statusLine", "", <<>>, 1, "handler", 0)

\* binary.BigEndian.PutUint32
BigEndian(n) ==
    <<(n \div 16777216) % 256, (n \div 65536) % 256, (n \div 256) % 256, n % 256>>

\* utils.NewStdWriter(w, tag).Write(buf): one write of the tag, the length
\* and the bytes
StdWrite(tag, len, src, id) == Item("frame", tag, BigEndian(len), len, src, id)

RawWrite(len, src, id) == Item("raw", "", <<>>, len, src, id)

\* errStream = utils.NewStdWriter(outStream, utils.Stderr)
\* outStream = utils.NewStdWriter(outStream, utils.Stdout)
StreamTagSwapped(stream) == IF stream = "stdout" THEN "utils.Stderr" ELSE "utils.Stdout"
StreamTag(stream) == IF stream = "stdout" THEN "utils.Stdout" ELSE "utils.Stderr"

\* c.GetSubEnv("Config") != nil && !c.GetSubEnv("Config").GetBool("Tty") &&
\* version.GreaterThanOrEqualTo("1.6")
FramedWhateverVersion(i) == i.kind # "ws" /\ i.hasConfig /\ ~i.tty
Framed(i) ==
    i.kind # "ws" /\ i.hasConfig /\ ~i.tty /\ GreaterThanOrEqualTo(i.version, <<1, 6>>)

\* a write of the job, or of the handler, on the stream as it was wired
StreamWrite(framed, stream, len, src, id) ==
    IF framed THEN StdWrite(StreamTag(stream), len, src, id) ELSE RawWrite(len, src, id)

\* the error the handler returns for a fault
FaultError(fault) ==
    CASE fault = "form"    -> <<"invalid form">>
      [] fault = "vars"    -> <<"Missing parameter">>
      [] fault = "inspect" -> <<"No such", "container">>
      [] fault = "hijack"  -> <<"hijack failed">>

\* what the handler does up to the fault, or up to the start of its job
StepsSwapped(kind) ==
    CASE kind = "attach" -> <<"form", "vars", "job:container_inspect", "inspect", "hijack",
                              "flush", "choose", "job:attach", "statusLine">>
      [] kind = "ws"     -> <<"form", "vars", "job:container_inspect", "inspect",
                              "upgrade", "job:attach">>
      [] kind = "logs"   -> <<"form", "vars", "job:container_inspect", "inspect",
                              "choose", "job:logs">>
Steps(kind) ==
    CASE kind = "attach" -> <<"form", "vars", "job:container_inspect", "inspect", "hijack",
                              "flush", "statusLine", "choose", "job:attach">>
      [] kind = "ws"     -> <<"form", "vars", "job:container_inspect", "inspect",
                              "upgrade", "job:attach">>
      [] kind = "logs"   -> <<"form", "vars", "job:container_inspect", "inspect",
                              "choose", "job:logs">>

\* the steps taken: all of them, or those up to the one that fails
RECURSIVE StepsUntil(_, _, _)
StepsUntil(steps, fault, n) ==
    IF n > Len(steps) THEN steps
    ELSE IF steps[n] = fault THEN SubSeq(steps, 1, n)
    ELSE StepsUntil(steps, fault, n + 1)

\* the writes among the steps
RECURSIVE WritesOf(_)
WritesOf(steps) ==
    IF steps = <<>> THEN <<>>
    ELSE LET rest == WritesOf(Tail(steps)) IN
         CASE Head(steps) = "flush"      -> <<Flush>> \o rest
           [] Head(steps) = "statusLine" -> <<StatusLine>> \o rest
           [] OTHER                      -> rest

\* the handler up to job.Run(): the form, vars, the inspect job, the
\* hand-off, the status line, the choice of writers, the job
SessionOpen ==
    /\ proc = "running"
    /\ sess.pc = "start"
    /\ LET i     == sess.in
           steps == StepsUntil(Steps(i.kind), i.fault, 1)
       IN  IF i.fault # "none"
           THEN /\ sess' = [sess EXCEPT !.pc = "returned", !.events = steps,
                                        !.wire = WritesOf(steps), !.ret = FaultError(i.fault)]
                /\ resp' = [FinishRequest(httpError(
                                [NoResponse EXCEPT !.handler = i.kind,
                                                   !.err = FaultError(i.fault)],
                                FaultError(i.fault)))
                              EXCEPT !.done = TRUE]
           ELSE /\ sess' = [sess EXCEPT !.pc = "running", !.events = steps,
                                        !.wire = WritesOf(steps),
                                        !.handedOff = i.kind # "logs",
                                        !.framed = Framed(i)]
                /\ UNCHANGED resp
    /\ UNCHANGED <<req, task, cli, startupVars>>

\* the job writes the next chunk of one of its streams
JobWrite(stream) ==
    /\ proc = "running"
    /\ sess.pc = "running"
    /\ LET plan == IF stream = "stdout" THEN sess.in.outWrites ELSE sess.in.errWrites
           done == IF stream = "stdout" THEN sess.outDone ELSE sess.errDone
       IN  /\ done < Len(plan)
           /\ sess' = [sess EXCEPT
                  !.wire = Append(@, StreamWrite(sess.framed, stream, plan[done + 1],
                                                 stream, done + 1)),
                  !.outDone = IF stream = "stdout" THEN @ + 1 ELSE @,
                  !.errDone = IF stream = "stderr" THEN @ + 1 ELSE @]
    /\ UNCHANGED <<req, resp, task, cli, startupVars>>

\* the two deferred closes of postContainersAttach, last deferred first.
\* outStream is by then the variable as it was rewired: a StdWriter is
\* neither a *net.TCPConn nor an io.Closer.
DeferredCloses(i, framed) ==
    (IF framed THEN <<>> ELSE IF i.isTcp THEN <<"CloseWrite">> ELSE <<"Close">>)
        \o (IF i.isTcp THEN <<"CloseWrite">> ELSE <<"Close">>)

\* what becomes of the job's error
ErrorTextNowhere(s) == s.wire
ErrorText(s) ==
    IF s.in.kind = "ws" THEN s.wire
    ELSE Append(s.wire, StreamWrite(s.framed, "stdout", 1, "handler", 0))

\* job.Run() returns and the handler with it
SessionReturn ==
    /\ proc = "running"
    /\ sess.pc = "running"
    /\ sess.outDone = Len(sess.in.outWrites)
    /\ sess.errDone = Len(sess.in.errWrites)
    /\ sess' = [sess EXCEPT
           !.pc = "returned",
           !.wire = IF sess.in.jobErr THEN ErrorText(sess) ELSE @,
           !.logged = sess.in.jobErr /\ sess.in.kind = "ws",
           !.closeOps = CASE sess.in.kind = "attach" -> DeferredCloses(sess.in, sess.framed)
                          [] sess.in.kind = "ws"     -> <<"Close">>
                          [] OTHER                   -> <<>>,
           !.ret = NoErr]
    /\ resp' = [(IF sess.in.kind = "logs"
                 THEN FinishRequest([NoResponse EXCEPT !.handler = "logs"])
                 ELSE [NoResponse EXCEPT !.handler = sess.in.kind])
                  EXCEPT !.done = TRUE]
    /\ UNCHANGED <<req, task, cli, startupVars>>

SessionStart(i) ==
    [pc |-> "start", in |-> i, events |-> <<>>, wire |-> <<>>, closeOps |-> <<>>,
     outDone |-> 0, errDone |-> 0, framed |-> FALSE, handedOff |-> FALSE,
     logged |-> FALSE, ret |-> <<"none">>]

SessionInit ==
    /\ Serving
    /\ req = NoRequest
    /\ resp = NoResponse
    /\ sess \in {SessionStart(i) : i \in SessionInputs}
    /\ task = NoTask
    /\ cli = NoCli

SessionNext ==
    \/ SessionOpen
    \/ \E stream \in {"stdout", "stderr"} : JobWrite(stream)
    \/ SessionReturn

\* one attach, web-socket or logs session
SpecSession == SessionInit /\ [][SessionNext]_vars

(***************************************************************************)
(* ListenAndServe, call by call: one listener task from its start to       *)
(* httpSrv.Serve or to the error it returns.                               *)
(***************************************************************************)
\* os.Chmod(addr, 0660)
SocketMode == 432

\* the protocols a well-formed address may name
TaskProtos == ArgProtos \ {"bad"}

\* the addresses of a tcp listener, host and port; any other listener's
\* address is not looked into
TcpAddrs == {<<"127.0.0.1", ":", "2375">>, <<"localhost", ":", "2375">>,
             <<"0.0.0.0", ":", "2375">>, <<"10.0.0.1", ":", "2375">>}
NoAddr == <<>>

\* strings.HasPrefix(addr, "127.0.0.1")
HasLoopbackPrefix(addr) == addr # <<>> /\ addr[1] = "127.0.0.1"

\* proto, addr: of the address; Tls, TlsVerify, SocketGroup: of the job;
\* stale: a file is at the socket's path; keyPairOk, caOk: the key pair and
\* the CA bundle can be loaded
ListenInputs ==
    {i \in [proto : TaskProtos, addr : TcpAddrs \cup {NoAddr},
            Tls : BOOLEAN, TlsVerify : BOOLEAN,
            SocketGroup : SocketGroups, stale : BOOLEAN,
            keyPairOk : BOOLEAN, caOk : BOOLEAN] :
        /\ (i.proto = "tcp") = (i.addr # NoAddr)
        /\ i.proto # "unix" => (~i.stale /\ i.SocketGroup = "docker")
        /\ ~(i.Tls \/ i.TlsVerify) => (i.keyPairOk /\ i.caOk)
        /\ ~i.TlsVerify => i.caOk}

TaskStart(i) ==
    [pc |-> "start", in |-> i, calls |-> <<>>, oldmask |-> 0, bound |-> FALSE,
     tls |-> "none", result |-> "none"]

\* one call the task makes: its name, its argument and whether it succeeded
Call(op, arg, ok) == [op |-> op, arg |-> arg, ok |-> ok]

\* what none of the calls of a task changes
listenFrame == <<proc, flHosts, jobEnv, mainPc, daemonPc, daemonErr, activationLock, gate,
                 srv, chErrors, lst, ac, notify, req, resp, sess, cli>>

\* the task returns err
LnReturn(t, err) == [t EXCEPT !.pc = "done", !.result = err]

\* createRouter, then the branch on the protocol
LnStart ==
    /\ proc = "running"
    /\ task.pc = "start"
    /\ task' = [task EXCEPT !.pc = CASE task.in.proto = "fd"   -> "servefd"
                                      [] task.in.proto = "unix" -> "unlink"
                                      [] OTHER                  -> "listen"]
    /\ UNCHANGED <<umask, listenFrame>>

\* return ServeFd(addr, r): the listeners are served as they were inherited
LnServeFd ==
    /\ proc = "running"
    /\ task.pc = "servefd"
    /\ \/ task' = LnReturn([task EXCEPT !.calls = Append(@, Call("systemd.ListenFD", 0, FALSE))],
                           "listenfd")
       \/ /\ FdGateOpen(activationLock)
          /\ task' = [task EXCEPT !.pc = "serving",
                                  !.calls = @ \o <<Call("systemd.ListenFD", 0, TRUE),
                                                   Call("httpSrv.Serve", 0, TRUE)>>]
    /\ UNCHANGED <<umask, listenFrame>>

\* if err := syscall.Unlink(addr); err != nil && !os.IsNotExist(err) { return err }
UnlinkOutcomes(stale) == IF stale THEN {"removed", "error"} ELSE {"notexist", "error"}

UnlinkFatal(out) == out = "error"

LnUnlink ==
    /\ proc = "running"
    /\ task.pc = "unlink"
    /\ \E out \in UnlinkOutcomes(task.in.stale) :
         LET t == [task EXCEPT !.calls = Append(@, Call("syscall.Unlink", 0, out = "removed"))]
         IN  task' = IF UnlinkFatal(out) THEN LnReturn(t, "unlink")
                     ELSE [t EXCEPT !.pc = "umask"]
    /\ UNCHANGED <<umask, listenFrame>>

\* oldmask = syscall.Umask(0777)
LnUmask ==
    /\ proc = "running"
    /\ task.pc = "umask"
    /\ task' = [task EXCEPT !.pc = "listen", !.oldmask = umask,
                            !.calls = Append(@, Call("syscall.Umask", RestrictiveUmask, TRUE))]
    /\ umask' = RestrictiveUmask
    /\ UNCHANGED listenFrame

\* if proto == "unix" { syscall.Umask(oldmask) }
NeedsRestoreNever(proto) == FALSE
NeedsRestore(proto) == proto = "unix"

\* listenbuffer.NewListenBuffer or net.Listen; if err != nil { return err }
\* comes after the mask is restored
LnListen ==
    /\ proc = "running"
    /\ task.pc = "listen"
    /\ \E ok \in BOOLEAN :
         LET t == [task EXCEPT !.bound = ok, !.calls = Append(@, Call("net.Listen", 0, ok))]
         IN  task' = IF NeedsRestore(task.in.proto) THEN [t EXCEPT !.pc = "restore"]
                     ELSE IF ~ok THEN LnReturn(t, "bind")
                     ELSE [t EXCEPT !.pc = "tls"]
    /\ UNCHANGED <<umask, listenFrame>>

LnRestore ==
    /\ proc = "running"
    /\ task.pc = "restore"
    /\ LET t == [task EXCEPT !.calls = Append(@, Call("syscall.Umask", task.oldmask, TRUE))]
       IN  task' = IF ~task.bound THEN LnReturn(t, "bind") ELSE [t EXCEPT !.pc = "tls"]
    /\ umask' = task.oldmask
    /\ UNCHANGED listenFrame

\* proto != "unix" && (job.GetenvBool("Tls") || job.GetenvBool("TlsVerify"))
WrapsTls(i) == i.proto # "unix" /\ (i.Tls \/ i.TlsVerify)

\* tlsConfig.ClientAuth: tls.RequireAndVerifyClientCert under TlsVerify
ClientAuth(i) == IF i.TlsVerify THEN "RequireAndVerifyClientCert" ELSE "NoClientCert"

\* the key pair, the CA bundle under TlsVerify, then tls.NewListener
LnTls ==
    /\ proc = "running"
    /\ task.pc = "tls"
    /\ LET i  == task.in
           t1 == [task EXCEPT !.calls = Append(@, Call("tls.LoadX509KeyPair", 0, i.keyPairOk))]
           t2 == IF i.TlsVerify
                 THEN [t1 EXCEPT !.calls = Append(@, Call("ioutil.ReadFile", 0, i.caOk))]
                 ELSE t1
       IN  task' = IF ~WrapsTls(i) THEN [task EXCEPT !.pc = "switch"]
                   ELSE IF ~i.keyPairOk THEN LnReturn(t1, "tls")
                   ELSE IF i.TlsVerify /\ ~i.caOk THEN LnReturn(t2, "ca")
                   ELSE [t2 EXCEPT !.pc = "switch", !.tls = ClientAuth(i),
                                   !.calls = Append(@, Call("tls.NewListener", 0, TRUE))]
    /\ UNCHANGED <<umask, listenFrame>>

\* an error of changeGroup is returned unless the group is "docker"
GroupFailureAlwaysFatal(socketGroup) == TRUE
GroupFailureFatal(socketGroup) == socketGroup # "docker"

\* !strings.HasPrefix(addr, "127.0.0.1") && !job.GetenvBool("TlsVerify")
WarnsWithoutAnyTls(i) == ~HasLoopbackPrefix(i.addr) /\ ~i.Tls /\ ~i.TlsVerify
Warns(i) == ~HasLoopbackPrefix(i.addr) /\ ~i.TlsVerify

\* switch proto: tcp with its warning, unix up to the change of group, default
LnSwitch ==
    /\ proc = "running"
    /\ task.pc = "switch"
    /\ CASE task.in.proto = "tcp"  ->
              task' = [task EXCEPT !.pc = "serve",
                                   !.calls = IF Warns(task.in)
                                             THEN Append(@, Call("log.Infof", 0, TRUE))
                                             ELSE @]
         [] task.in.proto = "unix" ->
              IF task.in.SocketGroup = "" THEN task' = [task EXCEPT !.pc = "chmod"]
              ELSE \E ok \in BOOLEAN :
                     LET t == [task EXCEPT !.calls = Append(@, Call("changeGroup", 0, ok))]
                     IN  task' = IF ~ok /\ GroupFailureFatal(task.in.SocketGroup)
                                 THEN LnReturn(t, "chgrp")
                                 ELSE [t EXCEPT !.pc = "chmod"]
         [] OTHER                  -> task' = LnReturn(task, "proto")
    /\ UNCHANGED <<umask, listenFrame>>

\* if err := os.Chmod(addr, 0660); err != nil { return err }
LnChmod ==
    /\ proc = "running"
    /\ task.pc = "chmod"
    /\ \E ok \in BOOLEAN :
         LET t == [task EXCEPT !.calls = Append(@, Call("os.Chmod", SocketMode, ok))]
         IN  task' = IF ~ok THEN LnReturn(t, "chmod") ELSE [t EXCEPT !.pc = "serve"]
    /\ UNCHANGED <<umask, listenFrame>>

\* return httpSrv.Serve(l)
LnServe ==
    /\ proc = "running"
    /\ task.pc = "serve"
    /\ task' = [task EXCEPT !.pc = "serving",
                            !.calls = Append(@, Call("httpSrv.Serve", 0, TRUE))]
    /\ UNCHANGED <<umask, listenFrame>>

ListenInit ==
    /\ Serving
    /\ req = NoRequest
    /\ resp = NoResponse
    /\ sess = NoSession
    /\ task \in {TaskStart(i) : i \in ListenInputs}
    /\ cli = NoCli

ListenNext ==
    \/ LnStart
    \/ LnServeFd
    \/ LnUnlink
    \/ LnUmask
    \/ LnListen
    \/ LnRestore
    \/ LnTls
    \/ LnSwitch
    \/ LnChmod
    \/ LnServe

\* one run of ListenAndServe
SpecListen == ListenInit /\ [][ListenNext]_vars

(***************************************************************************)
(* The client's command dispatch: DockerCli.Cmd and getMethod.             *)
(***************************************************************************)
\* a name is the sequence of its characters
\* strings.ToUpper and strings.ToLower on one character
ToUpper(c) ==
    CASE c = "p" -> "P" [] c = "s" -> "S" [] c = "r" -> "R" [] c = "m" -> "M"
      [] c = "h" -> "H" [] c = "e" -> "E" [] c = "l" -> "L" [] c = "x" -> "X"
      [] OTHER   -> c

ToLower(c) ==
    CASE c = "P" -> "p" [] c = "S" -> "s" [] c = "R" -> "r" [] c = "M" -> "m"
      [] c = "H" -> "h" [] c = "E" -> "e" [] c = "L" -> "l" [] c = "X" -> "x"
      [] OTHER   -> c

\* the methods of DockerCli whose names begin with Cmd (a few of them)
CmdMethods == {<<"C", "m", "d", "P", "s">>, <<"C", "m", "d", "R", "m">>,
               <<"C", "m", "d", "H", "e", "l", "p">>}

CmdHelp == <<"C", "m", "d", "H", "e", "l", "p">>

\* "Cmd" + strings.ToUpper(name[:1]) + strings.ToLower(name[1:])
MethodNameVerbatim(name) == <<"C", "m", "d">> \o name
MethodName(name) ==
    <<"C", "m", "d", ToUpper(name[1])>> \o [k \in 1..(Len(name) - 1) |-> ToLower(name[k + 1])]

\* getMethod: no method for the empty name, else the method of that name
\* if the client has one
getMethod(name) ==
    IF Len(name) = 0 THEN [method |-> <<>>, exists |-> FALSE]
    ELSE IF MethodName(name) \notin CmdMethods THEN [method |-> <<>>, exists |-> FALSE]
    ELSE [method |-> MethodName(name), exists |-> TRUE]

\* the words of a command line
Words == {<<"p", "s">>, <<"P", "S">>, <<"p", "S">>, <<"r", "m">>,
          <<"h", "e", "l", "p">>, <<"x">>, <<"r", "m", "x">>, <<>>}

CliInputs == [args : SeqsUpTo(Words, MaxArgs), cmdErr : BOOLEAN]

\* one call a command handler received
Invocation(method, args) == [method |-> method, args |-> args]

\* Cmd with arguments: the method of the first, or help, is called with the
\* others; Cmd without arguments: help is called with none
CliCmd ==
    /\ proc = "running"
    /\ cli.pc = "start"
    /\ LET args == cli.in.args
           m    == IF Len(args) > 0 THEN getMethod(args[1])
                   ELSE [method |-> <<>>, exists |-> FALSE]
       IN  cli' = [cli EXCEPT
                     !.pc = "called",
                     !.notFound = Len(args) > 0 /\ ~m.exists,
                     !.invoked = Append(@,
                        IF Len(args) > 0
                        THEN Invocation(IF m.exists THEN m.method ELSE CmdHelp, Tail(args))
                        ELSE Invocation(CmdHelp, args))]
    /\ UNCHANGED <<startupVars, req, resp, sess, task>>

\* the handler returns, and Cmd returns what it returned
CliReturn ==
    /\ proc = "running"
    /\ cli.pc = "called"
    /\ cli' = [cli EXCEPT !.pc = "returned",
                          !.handlerErr = cli.in.cmdErr,
                          !.result = cli.in.cmdErr]
    /\ UNCHANGED <<startupVars, req, resp, sess, task>>

CliStart(i) ==
    [pc |-> "start", in |-> i, invoked |-> <<>>, notFound |-> FALSE,
     handlerErr |-> FALSE, result |-> FALSE]

CliInit ==
    /\ Serving
    /\ req = NoRequest
    /\ resp = NoResponse
    /\ sess = NoSession
    /\ task = NoTask
    /\ cli \in {CliStart(i) : i \in CliInputs}

CliNext == CliCmd \/ CliReturn

\* one call of DockerCli.Cmd
SpecCli == CliInit /\ [][CliNext]_vars

(***************************************************************************)
(* Properties of the activation gate and of daemon startup.                *)
(***************************************************************************)
FdListeners == {l \in ListenerIds : lst[l].proto = "fd"}

GateClosed(g) == g # 0 /\ gate[g] = "closed"

\* C2: every Serve call (and so every accept) on an inherited-descriptor
\* listener happens after the gate ServeFd received on has been closed.
C2_FdServeAfterGate ==
    \A l \in FdListeners :
        (lst[l].served > 0 \/ lst[l].accepted > 0) => GateClosed(lst[l].gateRef)

C2_Witness ==
    \E l \in FdListeners : lst[l].served > 0 /\ lst[l].accepted > 0

\* C3: whatever the protocol, a listener started by ServeApi has accepted a
\* connection only if its gate was closed by a run of AcceptConnections.
C3_NoAcceptBeforeGate ==
    \A l \in ListenerIds :
        lst[l].accepted > 0 =>
            /\ GateClosed(lst[l].gateRef)
            /\ \E a \in Runs : ac[a].closed = lst[l].gateRef

C3_Witness ==
    /\ \E l \in ListenerIds : lst[l].proto = "tcp" /\ lst[l].accepted > 0
    /\ \E l \in ListenerIds : lst[l].proto = "unix" /\ lst[l].accepted > 0

\* a listener that is held back by the gate it was given
BlockedOnGate(l) ==
    \/ lst[l].pc = "fdwait"
    \/ lst[l].buffered /\ lst[l].active > 0

\* C4: once the acceptconnections job of mainDaemon has run, no listener
\* is left blocked on a gate that is still pending.
C4_ReleasedAfterAccept ==
    ac[1].pc = "returned" =>
        \A l \in ListenerIds : BlockedOnGate(l) => GateClosed(lst[l].gateRef)

\* C5: no run of AcceptConnections closes a gate that is already closed.
C5_NoDoubleClose ==
    \A a \in Runs : ac[a].pc # "panicked"

\* C6: once the gate is open, no step makes the gate pending again or
\* replaces it by a pending one.
C6_GateIrreversible ==
    [][GateClosed(activationLock) => GateClosed(activationLock')]_vars

\* C7: the acceptconnections job runs only after NewDaemon and Install
\* succeeded; if either failed, it never runs and no gate is closed.
C7_AcceptAfterInstall ==
    /\ ac[1].pc # "idle" => (daemonErr = {} /\ daemonPc \in {"inaccept", "done"})
    /\ daemonErr # {} => (ac[1].pc = "idle" /\ \A g \in Runs : gate[g] # "closed")

C7_Witness ==
    /\ ac[1].pc = "returned"
    /\ GateClosed(activationLock)

NotifyFailures == {"nosocket", "dialerr", "writeerr"}

\* C9: a run of AcceptConnections returns success and has closed the gate
\* it found, whatever SdNotify returned; without NOTIFY_SOCKET, SdNotify
\* makes no socket operation and returns SdNotifyNoSocket.
C9_NotifyFailureNotFatal ==
    /\ \A a \in Runs :
         ac[a].pc = "returned" =>
            /\ ac[a].status = "OK"
            /\ ac[a].saw # 0 => (ac[a].closed = ac[a].saw /\ GateClosed(ac[a].saw))
    /\ daemonPc = "done" => ac[1].status = "OK"
    /\ \A a \in Runs :
         (~jobEnv.NotifySocket /\ notify[a].res \notin {"none", "spawned"}) =>
            (notify[a].res = "nosocket" /\ notify[a].ops = 0)

C9_Witness ==
    /\ ac[1].pc = "returned"
    /\ ac[1].closed # 0
    /\ notify[1].res \in NotifyFailures
    /\ daemonPc = "done"
    /\ proc = "running"

(***************************************************************************)
(* Properties of the dispatcher.                                           *)
(***************************************************************************)
TokenTooNew == req.token # <<>> /\ GreaterThan(req.token, APIVERSION)

Registered == Match(req.method, req.path, req.token).handler # "none"

Rejected == resp.status = 404 /\ resp.handler = "none" /\ resp.jobs = <<>>

\* C1 as stated: a request to any registered route whose path carries a
\* version above the server's is answered 404, and neither the handler nor
\* a job is run.
C1_VersionGateEveryRoute ==
    (resp.done /\ Registered /\ TokenTooNew) => Rejected

\* C1 as amended: that holds of every route registered with a path; the
\* OPTIONS route has no version variable and answers 200 whatever the path
\* carries, and no request with such a version runs a job.
C1_VersionGate ==
    /\ (resp.done /\ Registered /\ TokenTooNew /\ req.method # "OPTIONS") => Rejected
    /\ (resp.done /\ TokenTooNew /\ req.method = "OPTIONS") =>
          (resp.status = 200 /\ resp.handler = "optionsHandler")
    /\ (resp.done /\ TokenTooNew) => resp.jobs = <<>>

C1_Witness ==
    /\ resp.done /\ Registered /\ TokenTooNew
    /\ req.path = "/containers/{name}/kill" /\ req.method = "POST"
    /\ req.token = <<1, 15>>
    /\ Rejected

KeywordsIn(msg) == {k \in Keywords : Contains(msg, k)}

StatusOf(k) ==
    CASE k = "No such"               -> 404
      [] k = "Conflict"              -> 409
      [] k = "Bad parameter"         -> 400
      [] k = "Impossible"            -> 406
      [] k = "Wrong login/password"  -> 401
      [] k = "hasn't been activated" -> 403

\* C10: a handler error whose text has exactly one of the mapped phrases is
\* answered with that phrase's status, and one with none of them with 500.
C10_ErrorMapping ==
    (resp.done /\ resp.err # NoErr) =>
        /\ \A k \in Keywords : KeywordsIn(resp.err) = {k} => resp.status = StatusOf(k)
        /\ KeywordsIn(resp.err) = {} => resp.status = 500
        /\ KeywordsIn(resp.err) # {} =>
              resp.status \in {StatusOf(k) : k \in KeywordsIn(resp.err)}

C10_Witness ==
    /\ resp.done
    /\ resp.err = <<"hasn't been activated", "container">>
    /\ resp.status = 403

\* the status of the first phrase of `order` that the message contains
RECURSIVE FirstMatch(_, _, _)
FirstMatch(order, msg, i) ==
    IF i > Len(order) THEN 500
    ELSE IF Contains(msg, order[i]) THEN StatusOf(order[i])
    ELSE FirstMatch(order, msg, i + 1)

DocumentedOrder == <<"No such", "Conflict", "Bad parameter", "Impossible",
                     "Wrong login/password", "hasn't been activated">>

TestedOrder == <<"No such", "Bad parameter", "Conflict", "Impossible",
                 "Wrong login/password", "hasn't been activated">>

SeveralPhrases == resp.done /\ resp.err # NoErr /\ Cardinality(KeywordsIn(resp.err)) > 1

\* C11 as stated: an error with several mapped phrases gets the status of
\* the first of them in the order No such, Conflict, Bad parameter,
\* Impossible, Wrong login/password, hasn't been activated.
C11_FirstMatchDocumentedOrder ==
    SeveralPhrases => resp.status = FirstMatch(DocumentedOrder, resp.err, 1)

\* C11 as amended: the status is that of the first match in the order
\* No such, Bad parameter, Conflict, Impossible, Wrong login/password,
\* hasn't been activated; where the phrase stands in the message is of no
\* account.
C11_FirstMatchTestedOrder ==
    SeveralPhrases => resp.status = FirstMatch(TestedOrder, resp.err, 1)

C11_Witness ==
    /\ SeveralPhrases
    /\ resp.err = <<"Conflict", "Bad parameter">>
    /\ resp.status = 400

MissingParameter == resp.done /\ resp.err = <<"Missing parameter">>

\* C12: a request whose handler reports "Missing parameter" is answered
\* with a 4xx status, and no job is run for it.
C12_MissingParameterClientError ==
    MissingParameter => (resp.status \in 400..499 /\ resp.jobs = <<>>)

\* handlers that wire the job's standard stream to the response writer
StreamingHandlers == {"getEvents", "getImagesHistory", "getContainersChanges",
                      "getContainersTop", "getContainersExport", "postImagesCreate",
                      "postImagesPush", "postBuild"}

\* the job of a streaming handler wrote output and then failed
FailedAfterOutput ==
    /\ resp.done /\ resp.handler \in StreamingHandlers
    /\ resp.jobs # <<>> /\ req.jobOut > 0 /\ req.jobErr # NoErr

\* C13: when the job of a streaming handler fails after it has written
\* output, the error is appended to the stream as an error object and no
\* error status is handed to the response writer.
C13_StreamErrorInBand ==
    FailedAfterOutput =>
        /\ resp.calls = <<200>>
        /\ resp.errStatus = 0
        /\ resp.body[Len(resp.body)] \in {"errorObject", "errorText"}

\* handlers that run one job and answer with a fixed status
UnaryHandlers == {"postContainersKill", "postContainersPause", "postContainersUnpause",
                  "postContainersStart", "postContainersStop", "postContainersCreate",
                  "postContainersCopy"}

JobFailed == resp.jobs # <<>> /\ req.jobErr # NoErr

\* C14: a unary handler answers with a success status only after its job
\* has run successfully, and then with 200, 201 or 204; when the job fails
\* its error reaches the dispatcher and the answer is an error status.
C14_UnarySuccessAfterJob ==
    (resp.done /\ resp.handler \in UnaryHandlers) =>
        /\ resp.status \in 200..299 =>
              (resp.status \in {200, 201, 204} /\ resp.jobs # <<>> /\ ~JobFailed)
        /\ JobFailed => (resp.err = req.jobErr /\ resp.status >= 400)

(***************************************************************************)
(* Properties of the attach, web-socket and logs sessions.                 *)
(***************************************************************************)
Returned == sess.pc = "returned"

Started == sess.pc \in {"running", "returned"}

Has(seq, x) == \E k \in 1..Len(seq) : seq[k] = x

Pos(seq, x) == CHOOSE k \in 1..Len(seq) : seq[k] = x

\* C15: when postContainersAttach returns after the hijack, the connection
\* has been shut down for writing and then closed, whatever the kind of
\* connection, the tty setting and the outcome of the job.
C15_ClosedOnReturn ==
    (Returned /\ sess.in.kind = "attach" /\ Has(sess.events, "flush")) =>
        sess.closeOps = <<"CloseWrite", "Close">>

\* the writes that carry data
IsData(it) == it.len > 0

\* C16: in an attach session the status line is the first data on the
\* hijacked connection and is written before the attach job is created; it
\* is written only after the inspect job and the hijack succeeded, and then
\* always.
C16_StatusLineFirst ==
    (sess.pc # "none" /\ sess.in.kind = "attach") =>
        /\ SelectSeq(sess.wire, IsData) # <<>> =>
              Head(SelectSeq(sess.wire, IsData)) = StatusLine
        /\ Has(sess.wire, StatusLine) =>
              /\ sess.in.fault = "none"
              /\ Has(sess.events, "inspect") /\ Has(sess.events, "hijack")
              /\ Pos(sess.events, "inspect") < Pos(sess.events, "statusLine")
              /\ Pos(sess.events, "hijack") < Pos(sess.events, "statusLine")
        /\ Has(sess.events, "job:attach") =>
              /\ Has(sess.events, "statusLine")
              /\ Pos(sess.events, "statusLine") < Pos(sess.events, "job:attach")
        /\ sess.in.fault # "none" => ~Has(sess.events, "job:attach")

C16_Witness ==
    /\ Returned /\ sess.in.kind = "attach"
    /\ Len(sess.wire) >= 4
    /\ sess.wire[2] = StatusLine
    /\ sess.wire[3].src = "stderr"

\* the writes the handler itself made after the hand-off
IsHandlerText(it) == it.src = "handler" /\ it.kind \in {"raw", "frame"}

\* C17: after the hand-off an error of the job is no HTTP error: attach
\* writes it as text into the stream and returns nil, the web-socket
\* handler logs it and returns nil; an error before the hand-off is
\* returned and answered as an HTTP error.
C17_ErrorAfterHandOff ==
    (Returned /\ sess.in.kind \in {"attach", "ws"}) =>
        /\ sess.handedOff =>
              /\ sess.ret = NoErr
              /\ resp.calls = <<>> /\ resp.errStatus = 0 /\ resp.err = NoErr
        /\ (sess.handedOff /\ sess.in.jobErr /\ sess.in.kind = "attach") =>
              /\ IsHandlerText(sess.wire[Len(sess.wire)])
              /\ ~sess.logged
        /\ (sess.handedOff /\ sess.in.jobErr /\ sess.in.kind = "ws") =>
              /\ sess.logged
              /\ SelectSeq(sess.wire, IsHandlerText) = <<>>
        /\ (sess.handedOff /\ ~sess.in.jobErr) =>
              SelectSeq(sess.wire, IsHandlerText) = <<>>
        /\ sess.in.fault # "none" =>
              /\ ~sess.handedOff
              /\ sess.ret = FaultError(sess.in.fault)
              /\ resp.err = sess.ret /\ resp.status >= 400

C17_Witness ==
    /\ Returned /\ sess.in.kind = "attach" /\ sess.handedOff /\ sess.in.jobErr
    /\ sess.in.outWrites # <<>>
    /\ IsHandlerText(sess.wire[Len(sess.wire)])

IsStreamWrite(it) == it.kind \in {"raw", "frame"}

IsFrame(it) == it.kind = "frame"

\* C18: attach and logs frame their output exactly when the container has
\* a Config, is not a tty and the version is at least 1.6; the choice is
\* made before the job is created and every write of the session follows
\* it.
C18_FramingChoice ==
    (Started /\ sess.in.fault = "none" /\ sess.in.kind \in {"attach", "logs"}) =>
        /\ sess.framed <=>
              (sess.in.hasConfig /\ ~sess.in.tty /\ sess.in.version[1] >= 1
                 /\ sess.in.version[2] >= 6)
        /\ \A k \in 1..Len(sess.wire) :
              IsStreamWrite(sess.wire[k]) => (IsFrame(sess.wire[k]) <=> sess.framed)
        /\ Pos(sess.events, "choose")
              < Pos(sess.events, IF sess.in.kind = "attach" THEN "job:attach" ELSE "job:logs")

C18_Witness ==
    /\ Returned /\ sess.in.kind = "attach"
    /\ sess.in.version = <<1, 5>> /\ sess.in.hasConfig /\ ~sess.in.tty
    /\ sess.in.outWrites # <<>> /\ sess.in.errWrites # <<>>
    /\ SelectSeq(sess.wire, IsFrame) = <<>>

IsStdout(it) == it.src = "stdout"

IsStderr(it) == it.src = "stderr"

IsJobWrite(it) == it.src \in {"stdout", "stderr"}

Lens(items) == [k \in 1..Len(items) |-> items[k].len]

\* the length a frame's four length bytes stand for, most significant first
Decoded(size) == ((size[1] * 256 + size[2]) * 256 + size[3]) * 256 + size[4]

\* C19: in a framed attach session every write of the job is one frame on
\* the wire, with the tag of its stream and its length as four big-endian
\* bytes; the frames of each stream are in the order of its writes.
C19_Frames ==
    (Started /\ sess.in.kind = "attach" /\ sess.framed) =>
        /\ Len(SelectSeq(sess.wire, IsJobWrite)) = sess.outDone + sess.errDone
        /\ \A k \in 1..Len(sess.wire) :
              IsJobWrite(sess.wire[k]) =>
                 /\ sess.wire[k].kind = "frame"
                 /\ sess.wire[k].tag = (IF sess.wire[k].src = "stdout"
                                        THEN "utils.Stdout" ELSE "utils.Stderr")
                 /\ Len(sess.wire[k].size) = 4
                 /\ \A b \in 1..4 : sess.wire[k].size[b] \in 0..255
                 /\ Decoded(sess.wire[k].size) = sess.wire[k].len
        /\ Lens(SelectSeq(sess.wire, IsStdout)) = SubSeq(sess.in.outWrites, 1, sess.outDone)
        /\ Lens(SelectSeq(sess.wire, IsStderr)) = SubSeq(sess.in.errWrites, 1, sess.errDone)
        /\ \A k \in 1..Len(sess.wire) :
              IsJobWrite(sess.wire[k]) => k > Pos(sess.wire, StatusLine)

C19_Witness ==
    /\ Started /\ sess.in.kind = "attach" /\ sess.framed
    /\ sess.in.errWrites = <<300>> /\ sess.in.outWrites = <<1>>
    /\ sess.wire = <<Flush, StatusLine,
                     Item("frame", "utils.Stderr", <<0, 0, 1, 44>>, 300, "stderr", 1),
                     Item("frame", "utils.Stdout", <<0, 0, 0, 1>>, 1, "stdout", 1)>>

(***************************************************************************)
(* Properties of the listings.                                             *)
(***************************************************************************)
Listed == resp.done /\ resp.handler = "getContainersJSON" /\ resp.jobs # <<>>

\* the version the request was served at
Served == ResolvedVersion(Match(req.method, req.path, req.token))

Below15 == Served[1] < 1 \/ (Served[1] = 1 /\ Len(Served) >= 2 /\ Served[2] < 5)
              \/ Served = <<1>>

\* C20: a container listing is answered in exactly one way: below 1.5 the
\* job's output is buffered and written once, each record's Ports replaced
\* by the display string of that record's ports; from 1.5 on the job's
\* records are streamed as they are.  Either answer is derived from the
\* same output of the one job.
C20_ListingPath ==
    Listed =>
        /\ resp.jobs = <<"containers">>
        /\ Below15 =>
              /\ resp.paths = IF req.jobErr = NoErr THEN <<"buffer", "legacy">>
                              ELSE <<"buffer">>
              /\ resp.table = IF req.jobErr = NoErr
                              THEN [k \in 1..Len(req.records) |->
                                      [display |-> TRUE,
                                       ports |-> SortedPorts(req.records[k])]]
                              ELSE <<>>
        /\ ~Below15 =>
              /\ resp.paths = <<"stream">>
              /\ resp.table = [k \in 1..Len(req.records) |->
                                 [display |-> FALSE, ports |-> req.records[k]]]

C20_Witness ==
    /\ Listed /\ Served = <<1, 4>> /\ req.jobErr = NoErr
    /\ req.records = <<<<443, 80>>, <<80>>>>
    /\ resp.table = <<[display |-> TRUE, ports |-> <<80, 443>>],
                      [display |-> TRUE, ports |-> <<80>>]>>
    /\ resp.status = 200

ImagesListed ==
    /\ resp.done /\ resp.handler = "getImagesJSON"
    /\ resp.jobs # <<>> /\ req.jobErr = NoErr

Below17 == Served[1] < 1 \/ (Served[1] = 1 /\ Part(Served, 2) < 7)

\* the (image, RepoTag) pairs of a listing, image by image
RECURSIVE RepoTagPairs(_, _)
RepoTagPairs(images, k) ==
    IF k > Len(images) THEN <<>>
    ELSE [j \in 1..Len(images[k].RepoTags) |-> [image |-> images[k], repoTag |-> images[k].RepoTags[j]]]
         \o RepoTagPairs(images, k + 1)

\* C21: an image listing below 1.7 is answered with one legacy record for
\* each (image, RepoTag) pair of the job's output: Repository and Tag are
\* the two sides of the name's last colon, and Id, Created, Size and
\* VirtualSize are the image's.  From 1.7 on the job's output is streamed as
\* it is and no legacy record is made.
C21_ImageListing ==
    ImagesListed =>
        LET pairs == RepoTagPairs(req.images, 1) IN
        /\ resp.jobs = <<"images">>
        /\ Below17 =>
              /\ Len(resp.legacy) = Len(pairs)
              /\ \A k \in 1..Len(pairs) :
                    /\ resp.legacy[k].Repository \o <<":">> \o resp.legacy[k].Tag
                          = pairs[k].repoTag
                    /\ ~Contains(resp.legacy[k].Tag, ":")
                    /\ ~Contains(resp.legacy[k].Tag, "/")
                    /\ resp.legacy[k].Id = pairs[k].image.Id
                    /\ resp.legacy[k].Created = pairs[k].image.Created
                    /\ resp.legacy[k].Size = pairs[k].image.Size
                    /\ resp.legacy[k].VirtualSize = pairs[k].image.VirtualSize
              /\ resp.paths = <<"buffer", "legacy">>
              /\ resp.body = <<"list">>
        /\ ~Below17 =>
              /\ resp.legacy = <<>>
              /\ resp.paths = <<"stream">>
              /\ resp.table = req.images
              /\ resp.body = [k \in 1..Len(req.images) |-> "output"]

C21_Witness ==
    /\ ImagesListed /\ Served = <<1, 6>>
    /\ Len(req.images) = 2 /\ req.images[1].Id = "b" /\ req.images[2].Id = "d"
    /\ Len(resp.legacy) = 2
    /\ resp.legacy[1].Repository = <<"h", ":", "5", "/", "r">>
    /\ resp.legacy[1].Tag = <<"t">>
    /\ resp.legacy[2].Repository = <<"r">>
    /\ resp.status = 200

(***************************************************************************)
(* Properties of the router.                                               *)
(***************************************************************************)
PathMethods == {"GET", "POST", "DELETE"}

\* the handlers registered for a route in one of its two forms
RegisteredFor(method, route, prefixed) ==
    {g.f : g \in {g0 \in Registrations :
                     g0.method = method /\ g0.route = route /\ g0.prefixed = prefixed}}

\* each path route has both registrations, with the handler of the map
BothFormsRegistered ==
    \A method \in PathMethods : \A route \in DOMAIN RouteMap(method) :
       \A prefixed \in BOOLEAN :
          RegisteredFor(method, route, prefixed) = {RouteMap(method)[route]}

PathRouted == resp.done /\ req.method \in PathMethods /\ req.path \in DOMAIN RouteMap(req.method)

\* C22: every route of GET, POST and DELETE is registered with and without
\* the version prefix, both times with the handler the map gives it; a
\* request on the bare path is handled at the server's API version and a
\* request on the prefixed path at the version its path carries.
C22_RegisteredTwice ==
    /\ BothFormsRegistered
    /\ (PathRouted /\ ~TokenTooNew) =>
          /\ resp.handler = RouteMap(req.method)[req.path]
          /\ resp.version = IF req.token = <<>> THEN APIVERSION ELSE req.token

C22_Witness ==
    /\ PathRouted /\ req.path = "/containers/{name}/top" /\ req.token = <<1, 4>>
    /\ resp.handler = "getContainersTop" /\ resp.version = <<1, 4>>
    /\ resp.jobs = <<"top">>

Dispatched == resp.done /\ Registered

\* C23: with CORS enabled the Access-Control-Allow-* headers are in the
\* response of every dispatched request when its status goes out, be it the
\* handler's, an error's or the version gate's 404, and an OPTIONS request
\* is answered 200 on any path; with CORS disabled no response has them.
C23_CorsHeaders ==
    /\ (Dispatched /\ req.cors) => (resp.cors /\ resp.sentCors)
    /\ (resp.done /\ req.cors /\ req.method = "OPTIONS") =>
          (resp.status = 200 /\ resp.calls = <<200>>)
    /\ (resp.done /\ ~req.cors) => (~resp.cors /\ ~resp.sentCors)

C23_Witness ==
    /\ Dispatched /\ req.cors /\ TokenTooNew /\ req.method = "GET"
    /\ resp.status = 404 /\ resp.handler = "none" /\ resp.sentCors

(***************************************************************************)
(* Properties of ServeApi and its listener tasks.                          *)
(***************************************************************************)
\* the listener tasks a run of ServeApi started
TasksOf(k) == {l \in ListenerIds : l[1] = k /\ lst[l].pc # "none"}

\* a task that has not sent its result: setting up, waiting or serving
StillRunning(l) == lst[l].pc \notin {"none", "done"}

\* the run was given a unix and a tcp address, the tcp bind has failed and
\* the unix listener has not
TcpBindFailedOnly(k) ==
    /\ \E l \in TasksOf(k) : lst[l].proto = "tcp" /\ lst[l].result = "bind"
    /\ \E l \in TasksOf(k) : lst[l].proto = "unix" /\ lst[l].result = "none"

\* C24: when ServeApi was given a unix and a tcp address and the tcp bind
\* fails, ServeApi returns the bind error, and once it has returned no
\* listener task of the run is left running.
C24_NoLeakOnBindFailure ==
    \A k \in Runs :
        (srv[k].pc = "returned" /\ TcpBindFailedOnly(k)) =>
            /\ srv[k].status = "bind"
            /\ \A l \in TasksOf(k) : ~StillRunning(l)

\* C25: ServeApi does not return while a listener task it started is still
\* serving, and it returns success only if every listener task returned
\* without an error.
C25_BlocksUntilAllDone ==
    \A k \in Runs :
        srv[k].pc = "returned" =>
            /\ \A l \in TasksOf(k) : lst[l].pc \notin {"serving", "fdserving"}
            /\ srv[k].status = "OK" =>
                  \A l \in TasksOf(k) : lst[l].pc = "done" /\ lst[l].result = "nil"

(***************************************************************************)
(* Properties of one listener task.                                        *)
(***************************************************************************)
\* the positions of the calls of one name, and of those that failed
CallsOf(op) == {k \in 1..Len(task.calls) : task.calls[k].op = op}

Failed(op) == \E k \in CallsOf(op) : ~task.calls[k].ok

UnixTask == task.pc # "none" /\ task.in.proto = "unix"

\* the task is past the change of group
PastGroup == task.pc \in {"chmod", "serve", "serving"} \/ CallsOf("os.Chmod") # {}

\* C26: for a unix listener a failed change of group is logged and the
\* task goes on to chmod and serve when the group is "docker"; it makes
\* ListenAndServe return the error, without chmod and without serving,
\* when the group is any other name; with an empty group no change of
\* group is attempted.
C26_GroupFailure ==
    UnixTask =>
        /\ task.in.SocketGroup = "" => CallsOf("changeGroup") = {}
        /\ (task.in.SocketGroup # "" /\ PastGroup) => Cardinality(CallsOf("changeGroup")) = 1
        /\ (Failed("changeGroup") /\ task.in.SocketGroup = "docker") =>
              /\ task.result # "chgrp"
              /\ PastGroup
              /\ task.pc = "done" => (task.result = "chmod" /\ Failed("os.Chmod"))
        /\ (Failed("changeGroup") /\ task.in.SocketGroup # "docker") =>
              /\ task.pc = "done" /\ task.result = "chgrp"
              /\ CallsOf("os.Chmod") = {} /\ CallsOf("httpSrv.Serve") = {}

C26_Witness ==
    /\ UnixTask /\ task.in.SocketGroup = "docker" /\ Failed("changeGroup")
    /\ task.pc = "serving"
    /\ task.calls[Len(task.calls) - 1] = Call("os.Chmod", SocketMode, TRUE)
    /\ task.calls[Len(task.calls)].op = "httpSrv.Serve"

\* the one call of a name, when there is exactly one
TheCall(op) == CHOOSE k \in CallsOf(op) : TRUE

\* the calls of syscall.Umask, in order
UmaskCalls == SelectSeq(task.calls, LAMBDA c : c.op = "syscall.Umask")

\* C27: a unix listener unlinks the socket's path before it binds, and an
\* unlink error other than not-exist ends the task before any bind; it sets
\* the creation mask 0777 before the bind and, after the bind and whether or
\* not the bind succeeded, sets the mask back to the value it had read; it
\* sets the socket's mode to 0660 before it serves.
C27_UnixSetupOrder ==
    UnixTask =>
        /\ task.calls # <<>> => task.calls[1].op = "syscall.Unlink"
        /\ task.result = "unlink" => (Len(task.calls) = 1 /\ umask \in InheritedUmasks)
        /\ CallsOf("net.Listen") # {} =>
              /\ Cardinality(CallsOf("syscall.Unlink")) = 1
              /\ TheCall("syscall.Unlink") < TheCall("net.Listen")
              /\ task.calls[TheCall("net.Listen") - 1]
                    = Call("syscall.Umask", RestrictiveUmask, TRUE)
        /\ task.pc = "restore" => umask = RestrictiveUmask
        /\ (CallsOf("net.Listen") # {} /\ task.pc # "restore") =>
              /\ TheCall("net.Listen") < Len(task.calls)
              /\ task.calls[TheCall("net.Listen") + 1]
                    = Call("syscall.Umask", task.oldmask, TRUE)
              /\ task.oldmask \in InheritedUmasks
              /\ umask = task.oldmask
              /\ Len(UmaskCalls) = 2
        /\ Failed("net.Listen") /\ task.pc = "done" =>
              (task.result = "bind" /\ Len(task.calls) = TheCall("net.Listen") + 1)
        /\ CallsOf("httpSrv.Serve") # {} =>
              /\ Cardinality(CallsOf("os.Chmod")) = 1
              /\ task.calls[TheCall("os.Chmod")] = Call("os.Chmod", SocketMode, TRUE)
              /\ TheCall("net.Listen") < TheCall("os.Chmod")
              /\ TheCall("os.Chmod") < TheCall("httpSrv.Serve")

C27_Witness ==
    /\ UnixTask /\ task.in.stale /\ task.in.SocketGroup = ""
    /\ task.pc = "serving"
    /\ task.calls = <<Call("syscall.Unlink", 0, TRUE),
                      Call("syscall.Umask", RestrictiveUmask, TRUE),
                      Call("net.Listen", 0, TRUE),
                      Call("syscall.Umask", 18, TRUE),
                      Call("os.Chmod", SocketMode, TRUE),
                      Call("httpSrv.Serve", 0, TRUE)>>
    /\ umask = 18

\* the key pair or, under TlsVerify, the CA bundle cannot be loaded
TlsMaterialBad == ~task.in.keyPairOk \/ (task.in.TlsVerify /\ ~task.in.caOk)

TlsRequested == task.in.Tls \/ task.in.TlsVerify

\* C28: a listener that is not a unix listener and was asked for TLS or
\* verified TLS never serves when the key pair or (with verification) the
\* CA bundle cannot be loaded, and returns an error; a listener that serves
\* requires and verifies client certificates exactly when TlsVerify is set;
\* a unix listener is never wrapped in TLS.
C28_TlsOrNoService ==
    task.pc # "none" =>
        /\ (task.in.proto # "unix" /\ TlsRequested /\ TlsMaterialBad) =>
              /\ CallsOf("httpSrv.Serve") = {}
              /\ task.pc # "serving"
        /\ (task.in.proto # "unix" /\ task.pc = "serving") =>
              (task.tls = "RequireAndVerifyClientCert" <=> task.in.TlsVerify)
        /\ task.in.proto = "unix" => (task.tls = "none" /\ CallsOf("tls.NewListener") = {})

\* ---- Properties of the jobs of one request ----

\* the handler h was called for the request and has returned
Called(h) == resp.done /\ resp.handler = h

\* the entries of the log that are about the job
LogOf(job) == {k \in 1..Len(resp.log) : resp.log[k].job = job}

\* the job was run
Ran(job) == \E k \in LogOf(job) : resp.log[k].op = "Run"

\* the job was given the credential c as its authConfig
AuthGiven(job, c) ==
    \E k \in LogOf(job) : /\ resp.log[k].op = "Setenv"
                          /\ resp.log[k].key = "authConfig"
                          /\ resp.log[k].val = c

\* the job that the handler makes
JobOf(h) ==
    CASE h = "postImagesCreate" -> "pull"
      [] h = "getImagesSearch"  -> "search"
      [] h = "postImagesPush"   -> "push"
      [] OTHER                  -> "none"

\* the handler went past its tests of the route variables and of the form
PastForm == resp.handler # "none" /\ ~req.varsNil /\ ~req.formErr

\* C29: for a pull, a search and a push that carry an X-Registry-Auth header
\* that cannot be decoded, the job is given the empty credential and is run
\* all the same; for a push without the header, a body that cannot be decoded
\* fails the request and the push job is never run.
C29_AuthDecodePolicy ==
    /\ \A h \in ReadsAuth :
          (Called(h) /\ PastForm /\ req.auth = "garbled") =>
              (Ran(JobOf(h)) /\ AuthGiven(JobOf(h), "empty")
               /\ \A c \in {"credential", "partial", "body"} : ~AuthGiven(JobOf(h), c))
    /\ (Called("postImagesPush") /\ PastForm /\ req.auth = "absent" /\ req.bodyErr) =>
          (resp.status >= 400 /\ resp.jobs = <<>> /\ LogOf("push") = {})

C29_Witness ==
    /\ Called("postImagesPush")
    /\ req.auth = "garbled"
    /\ Ran("push")
    /\ AuthGiven("push", "empty")

\* C30: within one request every parameter of a job (Setenv, SetenvJson,
\* DecodeEnv, an appended argument) is set before the job is run and none
\* after it, and a job whose environment could not be decoded from the body
\* is not run.
C30_ParamsBeforeRun ==
    /\ \A k, l \in 1..Len(resp.log) :
          (/\ resp.log[k].op = "Run"
           /\ resp.log[l].op # "Run"
           /\ resp.log[l].job = resp.log[k].job) => l < k
    /\ \A l \in 1..Len(resp.log) :
          (resp.log[l].op = "DecodeEnv" /\ resp.log[l].val = "error") =>
              (~Ran(resp.log[l].job) /\ resp.jobs = <<>>)
    /\ \A h \in {"postContainersCreate", "postContainersStart"} :
          (Called(h) /\ PastForm /\ req.bodyErr) =>
              (resp.log # <<>> /\ resp.jobs = <<>> /\ resp.status >= 400)

C30_Witness ==
    /\ Called("postContainersCreate")
    /\ req.bodyErr
    /\ resp.log = <<Param("Job", "create", "", ""),
                    Param("DecodeEnv", "create", "", "error")>>
    /\ resp.jobs = <<>>

\* ---- Properties of single handlers ----

\* the values the job was given for the key, in order
ValuesGiven(job, key) ==
    {resp.log[k].val : k \in {l \in LogOf(job) : /\ resp.log[l].op = "Setenv"
                                                  /\ resp.log[l].key = key}}

\* C31: the commit job's "pause" parameter is "1" when the request gives no
\* pause value and the version is 1.13 or later; in every other case it is
\* the request's pause value as given (empty below 1.13 when none is given).
C31_CommitPause ==
    (Called("postCommit") /\ ~req.formErr) =>
        /\ Ran("commit")
        /\ ValuesGiven("commit", "pause") =
              {IF req.pause = "" /\ ~LessThan(resp.version, <<1, 13>>)
               THEN "1" ELSE req.pause}

C31_Witness ==
    /\ Called("postCommit")
    /\ req.pause = ""
    /\ resp.version = <<1, 13>>
    /\ Ran("commit")
    /\ ValuesGiven("commit", "pause") = {"1"}

\* the body of the request was added as the job's input, and before the run
BodyWired(job) ==
    \E k \in LogOf(job) :
        /\ resp.log[k].op = "Stdin"
        /\ \A l \in LogOf(job) : resp.log[l].op = "Run" => k < l

\* C32: a build request below version 1.3 is answered with an error with no
\* build job made or run and nothing done with the body of the request; at
\* 1.3 or later the body is the input of the build job that is run.
C32_BuildGate ==
    /\ (Called("postBuild") /\ LessThan(resp.version, <<1, 3>>)) =>
          (resp.log = <<>> /\ resp.jobs = <<>> /\ resp.status >= 400
           /\ resp.err = <<"Multipart upload">>)
    /\ (Called("postBuild") /\ ~LessThan(resp.version, <<1, 3>>)) =>
          (BodyWired("build") /\ Ran("build") /\ resp.jobs = <<"build">>)

C32_Witness ==
    /\ Called("postBuild")
    /\ resp.version = <<1>>
    /\ resp.log = <<>>
    /\ resp.status = 500

\* ---- Properties of the tcp listener's warning ----

\* a tcp task that is past the switch on its protocol
TcpPastSwitch ==
    /\ task.pc \in {"serve", "serving"}
    /\ task.in.proto = "tcp"

\* the warning was logged
Warned == CallsOf("log.Infof") # {}

\* the address names the local host
IsLoopback(addr) == addr # <<>> /\ addr[1] \in {"127.0.0.1", "localhost"}

\* C33 as stated: the warning is logged if and only if neither TLS nor
\* verified TLS is requested and the bind address is not loopback.
C33_WarningAsStated ==
    TcpPastSwitch =>
        (Warned <=> (~task.in.Tls /\ ~task.in.TlsVerify /\ ~IsLoopback(task.in.addr)))

\* C33: for a tcp listener the warning is logged if and only if verified
\* TLS is not requested and the address does not begin with 127.0.0.1 (TLS
\* without verification does not silence it, nor does any other name of the
\* local host); a task that warned goes on to serve.
C33_TcpWarning ==
    /\ TcpPastSwitch =>
          (Warned <=> (~task.in.TlsVerify /\ ~HasLoopbackPrefix(task.in.addr)))
    /\ task.in.proto # "tcp" => ~Warned
    /\ Warned => (task.pc \in {"serve", "serving"} /\ task.result = "none")

C33_Witness ==
    /\ task.pc = "serving"
    /\ task.in.proto = "tcp"
    /\ task.in.Tls /\ ~task.in.TlsVerify
    /\ task.in.addr[1] = "0.0.0.0"
    /\ Warned
    /\ task.tls = "NoClientCert"

\* ---- Properties of the client's command dispatch ----

\* the name with its first letter in upper case and the others in lower case
Capitalised(name) ==
    [k \in 1..Len(name) |-> IF k = 1 THEN ToUpper(name[k]) ELSE ToLower(name[k])]

\* the client has a method Cmd<Name> for the word
HasCommand(word) == word # <<>> /\ (<<"C", "m", "d">> \o Capitalised(word)) \in CmdMethods

\* C34: Cmd without arguments calls the help handler; with a first argument
\* that names no Cmd<Name> method (first letter upper case, the others lower
\* case) it calls the help handler with the other arguments; else it calls
\* that one method with the other arguments; and it returns what the handler
\* it called returned.
C34_CmdDispatch ==
    cli.pc \in {"called", "returned"} =>
        LET args == cli.in.args IN
        /\ Len(cli.invoked) = 1
        /\ args = <<>> =>
              cli.invoked[1] = Invocation(CmdHelp, <<>>)
        /\ (args # <<>> /\ ~HasCommand(Head(args))) =>
              cli.invoked[1] = Invocation(CmdHelp, Tail(args))
        /\ (args # <<>> /\ HasCommand(Head(args))) =>
              cli.invoked[1] =
                  Invocation(<<"C", "m", "d">> \o Capitalised(Head(args)), Tail(args))
        /\ cli.pc = "returned" => cli.result = cli.handlerErr

C34_Witness ==
    /\ cli.pc = "returned"
    /\ cli.in.args = <<<<"P", "S">>, <<"x">>>>
    /\ cli.invoked = <<Invocation(<<"C", "m", "d", "P", "s">>, <<<<"x">>>>)>>
    /\ cli.result

\* ---- Properties of the handlers that test job.Stdout.Used() ----

FormattedHandlers == {"postImagesCreate", "postImagesPush", "postBuild"}

\* the job of a create, push or build request ran and failed
FormattedJobFailed ==
    /\ resp.done /\ resp.handler \in FormattedHandlers
    /\ resp.jobs # <<>> /\ req.jobErr # NoErr

\* the handler returned the error: the dispatcher sent an error status
ErrorReturned == resp.err # NoErr /\ resp.errStatus >= 400 /\ resp.status = resp.errStatus

\* a formatted error was written into the response
ErrorTrailed == \E k \in 1..Len(resp.body) : resp.body[k] \in {"errorObject", "errorText"}

\* C35: in postImagesCreate, postImagesPush and postBuild a failure of the
\* job is reported through exactly one channel: when the job has written no
\* output the handler returns the error and an error status is sent; when it
\* has, a formatted error is written after the output into the response that
\* has begun and the handler returns success.
C35_OneErrorChannel ==
    FormattedJobFailed =>
        /\ req.jobOut = 0 => (ErrorReturned /\ ~ErrorTrailed)
        /\ req.jobOut > 0 =>
              /\ ErrorTrailed /\ ~ErrorReturned
              /\ resp.err = NoErr /\ resp.calls = <<200>>
              /\ Len(resp.body) = req.jobOut + 1
              /\ resp.body[Len(resp.body)] \in {"errorObject", "errorText"}

C35_Witness ==
    /\ FormattedJobFailed
    /\ resp.handler = "postBuild"
    /\ req.jobOut = 0
    /\ ErrorReturned
    /\ resp.body = <<"error">>

\* ---- Properties of the listings for clients of old versions ----

\* a listing request of a client that is given the list in one piece, past
\* the parsing of its form
LegacyListing ==
    /\ resp.done /\ ~req.formErr
    /\ \/ resp.handler = "getContainersJSON" /\ LessThan(resp.version, <<1, 5>>)
       \/ resp.handler = "getImagesJSON" /\ LessThan(resp.version, <<1, 7>>)

\* what the job listed
JobListed == IF resp.handler = "getContainersJSON" THEN req.records ELSE req.images

\* C36: for a containers listing below 1.5 and an images listing below 1.7
\* nothing of the list is written to the response before the job has
\* completed successfully: the list is written in one piece after it, and
\* when the job fails nothing of the list is written and the job's error is
\* returned.
C36_LegacyAtomic ==
    LegacyListing =>
        /\ resp.jobs # <<>>
        /\ \A k \in 1..Len(resp.body) : resp.body[k] # "output"
        /\ req.jobErr = NoErr =>
              (resp.body = <<"list">> /\ resp.calls = <<200>> /\ resp.err = NoErr)
        /\ req.jobErr # NoErr =>
              /\ resp.err = req.jobErr
              /\ resp.body = <<"error">>
              /\ resp.table = <<>> /\ resp.legacy = <<>>
              /\ resp.calls = <<resp.errStatus>>

C36_Witness ==
    /\ LegacyListing
    /\ resp.handler = "getContainersJSON"
    /\ Len(JobListed) = 2
    /\ req.jobErr # NoErr
    /\ resp.body = <<"error">>

\* ---- Properties of the creation mask under several unix listeners ----

\* the unix listener tasks that were started
UnixTasks == {l \in ListenerIds : lst[l].pc # "none" /\ lst[l].proto = "unix"}

\* no listener task is still between its start and the return of its bind
SetupFinished == \A l \in ListenerIds : lst[l].pc \notin {"start", "bind"}

\* C37: when ServeApi has set up two or more unix listeners concurrently
\* and all of them are past their set-mask, bind and restore-mask steps,
\* the process-wide creation mask is the one the process had before.
C37_MaskRestored ==
    (Cardinality(UnixTasks) >= 2 /\ SetupFinished) => umask \in InheritedUmasks

\* ---- Properties of ServeApi's test of its arguments ----

\* the run returned the usage error
UsageError(k) == srv[k].pc = "returned" /\ srv[k].status = "usage"

\* C38: when an argument of ServeApi is not of the form PROTO://ADDR, or
\* there is none, ServeApi returns the usage error without having started a
\* listener task.
C38_UsageStartsNothing ==
    \A k \in Runs : UsageError(k) => TasksOf(k) = {}

\* ---- Properties of the handlers on a form that cannot be parsed ----

\* the handler was called with a form that parseForm refuses
FormRefused == resp.done /\ resp.handler \in ParsesForm /\ req.formErr

\* C39: when the form of the request cannot be parsed, the handler returns
\* an error, so that an error status is sent, and runs no job; no handler
\* answers such a request with a successful, empty response.
C39_FormErrorIsError ==
    FormRefused =>
        /\ resp.err # NoErr
        /\ resp.status >= 400
        /\ resp.jobs = <<>>

\* ---- Properties of the status of a response ----

\* C40: the status of a response is written at most once: after a status
\* has been written, by WriteHeader or by the first write of the body, no
\* path through the dispatcher and the handler writes a second, different
\* one through the error path.
C40_StatusOnce ==
    resp.done => \A k \in 1..Len(resp.calls) : resp.calls[k] = resp.calls[1]


====
